---- MODULE Spec2Model ----
(***************************************************************************)
(* Strava credential handling, on-demand activity cache and activity sync  *)
(* of the Athletes club site (StravaAPI module, dashboard / leaderboard    *)
(* pages and the admin event-table page), as a state machine.              *)
(*                                                                         *)
(* Time is the millisecond clock Date.now().  Every await of the code is   *)
(* a point where other handlers may run: the step before it sends the      *)
(* request, the step after it receives the answer of the remote service    *)
(* (the service acts when it answers).                                     *)
(***************************************************************************)
EXTENDS Integers, Sequences, FiniteSets, TLC

\* ------------------------------------------------------------------ values
\* JavaScript null (a column that holds no value)
NULL == -1
\* JavaScript undefined (a property that is read but was never set)
UNDEF == -2

\* JavaScript truthiness of a number-or-null value
Truthy(x) == x # NULL /\ x # UNDEF /\ x # 0

\* JavaScript ToNumber on a number-or-null value (null - 300 is -300)
ToNumber(x) == IF x = NULL THEN 0 ELSE x

\* ------------------------------------------------------------------ bounds
\* how many times the clock is advanced (by the coarse step)
MaxTicks == 5
\* how many times the clock is advanced by a fine step
MaxFineTicks == 3
\* how many times the clock is advanced while the event table is in use
MaxTableTicks == 2
\* how many access tokens the provider issues to one athlete
MaxGen == 2

\* ------------------------------------------------------------------ users
\* e-mail addresses, as character sequences (cache keys are built from them)
UserA == <<"a", "@", "b", ".", "c", "o">>
UserB == <<"a", "@", "b", ".", "c", "o", "m">>
Users == {UserA, UserB}
\* a third registered user, and everyone who has a profiles row
UserC == <<"c", "@", "b", ".", "c", "o">>
Accounts == Users \cup {UserC}
\* the athlete who uses the site in the credential specification
Athletes == {UserA}

\* the Strava athlete behind a profile
AthleteOf(u) == IF u = UserA THEN 71 ELSE IF u = UserB THEN 72 ELSE 73

\* ------------------------------------------------------------------ clock
\* token lifetimes (seconds) the provider hands out
Lifetimes == {400}
\* coarse clock step of the credential specification (100 s)
CoarseStep == 100 * 1000
\* clock step of the event table specifications (250 s)
TableStep == 250 * 1000
\* clock steps of the cache specification: one millisecond, and TTL - 1
FineSteps == {1, 5 * 60 * 1000 - 1}

\* ------------------------------------------------- StravaAPI: configuration
CACHE_TTL == 5 * 60 * 1000
CACHE_KEY_PREFIX == <<"s", "t", "r", "a", "v", "a", "_", "c", "a", "c", "h", "e", "_">>
\* the expiry buffer of isTokenExpired, seconds
TOKEN_BUFFER == 300

\* ------------------------------------------------- StravaAPI: isTokenExpired
\* const now = Math.floor(Date.now() / 1000); return now >= (expiresAt - 300)
isTokenExpiredNoBuffer(expiresAt, t) == (t \div 1000) >= ToNumber(expiresAt)
isTokenExpired(expiresAt, t) == (t \div 1000) >= ToNumber(expiresAt) - TOKEN_BUFFER

\* the admin page's own test: expiresAt && Date.now() / 1000 > expiresAt
adminTokenExpired(expiresAt, t) == Truthy(expiresAt) /\ t > expiresAt * 1000

\* ------------------------------------------------- JavaScript objects
\* reading a property: a missing property reads as undefined
Get(obj, f) == IF f \in DOMAIN obj THEN obj[f] ELSE UNDEF

\* a finite map without one key / with one key set
Remove(m, k) == [x \in (DOMAIN m) \ {k} |-> m[x]]
Put(m, k, v) == [x \in (DOMAIN m) \cup {k} |-> IF x = k THEN v ELSE m[x]]
EmptyMap == [x \in {} |-> 0]

\* s.startsWith(p) on character sequences
StartsWith(s, p) == Len(p) <= Len(s) /\ SubSeq(s, 1, Len(p)) = p

\* template-literal rendering of a non-negative integer
DigitChar(d) == <<"0", "1", "2", "3", "4", "5", "6", "7", "8", "9">>[d + 1]
RECURSIVE Digits(_)
Digits(n) == IF n < 10 THEN <<DigitChar(n)>> ELSE Digits(n \div 10) \o <<DigitChar(n % 10)>>

\* ------------------------------------------------- external activities
\* raw activities as the activities endpoint returns them (parsed JSON: an
\* absent property is a missing key)
\* start_date: UTC instant (ms); start_date_local: the local calendar day
RawRun == [id |-> 1, type |-> "Run", distance |-> 3000,
           start_date |-> 3600000, start_date_local |-> 0]
RawYoga == [id |-> 2, type |-> "Yoga",
            start_date |-> 90000000, start_date_local |-> 1]
RawAnswers == {<<>>, <<RawRun, RawYoga>>}
\* the run after the athlete has corrected its distance, a walk 150 s into
\* the first day and a hike late in it
RawRunEdited == [RawRun EXCEPT !.distance = 5000]
RawWalk == [id |-> 3, type |-> "Walk", distance |-> 1000,
            start_date |-> 150000, start_date_local |-> 0]
RawHike == [id |-> 4, type |-> "Hike", distance |-> 7000,
            start_date |-> 70000000, start_date_local |-> 1]
\* what the endpoint returns for a request with after/before bounds
EventAnswers == {<<>>, <<RawRun, RawYoga>>, <<RawRunEdited, RawWalk, RawHike>>}

\* ------------------------------------------------- date range helpers
\* Instants are milliseconds since 1970-01-01T00:00:00Z, the origin of the
\* model's clock; the dates used lie in the first weeks of 1970 so that every
\* instant fits a 32-bit integer.  A string is a sequence of characters.
DayMs == 24 * 60 * 60 * 1000
\* Date.prototype.getTimezoneOffset of the host, in ms (UTC+05:30)
HostOffset == 0 - 330 * 60 * 1000

\* a JavaScript value handed over as a date: null, undefined or a string
JSNull == [kind |-> "null", text |-> <<>>]
JSUndefined == [kind |-> "undefined", text |-> <<>>]
Str(s) == [kind |-> "string", text |-> s]
\* !value for such a value: null, undefined and '' are falsy
Falsy(v) == v.kind # "string" \/ v.text = <<>>

\* a number that may be NaN: <<>> is NaN, <<n>> is n; a Date object likewise
\* holds <<>> (Invalid Date) or <<t>>
NaN == <<>>
isNaN(x) == x = <<>>

\* the decimal digits and their values
DigitValues ==
    [c \in {"0", "1", "2", "3", "4", "5", "6", "7", "8", "9"} |->
        CHOOSE d \in 0..9 : DigitChar(d) = c]
isDigit(c) == c \in DOMAIN DigitValues
\* the value of the digits s[from..to]
RECURSIVE digitsValue(_, _, _)
digitsValue(s, from, to) ==
    IF to < from THEN 0
    ELSE 10 * digitsValue(s, from, to - 1) + DigitValues[s[to]]
\* ToNumber of the characters s[from..to], for the kinds of text that occur:
\* '' is 0, decimal digits are their value, anything else is NaN
toNumber(s, from, to) ==
    IF \A i \in from..to : isDigit(s[i]) THEN <<digitsValue(s, from, to)>> ELSE NaN
StringToNumber(s) == toNumber(s, 1, Len(s))

\* String.prototype.includes for one character
includes(s, c) == \E i \in 1..Len(s) : s[i] = c
\* dateTimeStr.split(/[-/]/)
RECURSIVE split(_)
split(s) ==
    IF \A i \in 1..Len(s) : s[i] \notin {"-", "/"} THEN <<s>>
    ELSE LET k == CHOOSE i \in 1..Len(s) :
                      /\ s[i] \in {"-", "/"}
                      /\ \A j \in 1..(i - 1) : s[j] \notin {"-", "/"}
         IN <<SubSeq(s, 1, k - 1)>> \o split(SubSeq(s, k + 1, Len(s)))
\* ToNumber(p[i]) for an array of strings (p[i] is undefined past its end)
numberAt(p, i) == IF i > Len(p) THEN NaN ELSE StringToNumber(p[i])

\* ECMAScript DayFromYear, InLeapYear, the day within the year of a month's
\* first day, and MakeDay(year, month, date) with a zero-based month that may
\* lie outside 0..11
DayFromYear(y) ==
    365 * (y - 1970) + ((y - 1969) \div 4) - ((y - 1901) \div 100) + ((y - 1601) \div 400)
InLeapYear(y) == (y % 4 = 0 /\ y % 100 # 0) \/ y % 400 = 0
MonthStart(mn, y) ==
    <<0, 31, 59, 90, 120, 151, 181, 212, 243, 273, 304, 334>>[mn + 1]
    + (IF mn >= 2 /\ InLeapYear(y) THEN 1 ELSE 0)
MakeDay(year, month, date) ==
    LET ym == year + (month \div 12)
        mn == month % 12
    IN DayFromYear(ym) + MonthStart(mn, ym) + date - 1
DaysInMonth(y, m) ==
    IF m = 2 THEN (IF InLeapYear(y) THEN 29 ELSE 28)
    ELSE IF m \in {4, 6, 9, 11} THEN 30 ELSE 31

\* new Date(year, month, date, hours, minutes, seconds, ms): local time; the
\* first three arguments are numbers that may be NaN, a year 0..99 means 19yy
DateFromParts(year, month, date, msOfDay) ==
    IF isNaN(year) \/ isNaN(month) \/ isNaN(date) THEN NaN
    ELSE LET yr == IF year[1] >= 0 /\ year[1] <= 99 THEN 1900 + year[1] ELSE year[1]
         IN <<MakeDay(yr, month[1], date[1]) * DayMs + msOfDay + HostOffset>>

\* the digits of s at positions from..to, as a number (NaN unless all digits)
field(s, from, to) ==
    IF to <= Len(s) THEN toNumber(s, from, to) ELSE NaN
\* the time-zone part of a date-time string: <<0>> for UTC, <<HostOffset>>
\* for none (local time), NaN for any other text
zoneOf(tail) ==
    CASE tail = <<"Z">> -> <<0>>
      [] tail = <<"+", "0", "0", ":", "0", "0">> -> <<0>>
      [] tail = <<>> -> <<HostOffset>>
      [] OTHER -> NaN
\* new Date(string) for the date-time format YYYY-MM-DDTHH:mm:ss[.sss][zone];
\* any other text is an Invalid Date
DateParse(s) ==
    LET y == field(s, 1, 4)
        mo == field(s, 6, 7)
        d == field(s, 9, 10)
        h == field(s, 12, 13)
        mi == field(s, 15, 16)
        sec == field(s, 18, 19)
        hasMs == Len(s) >= 23 /\ s[20] = "."
        ms == IF hasMs THEN field(s, 21, 23) ELSE <<0>>
        zone == IF Len(s) >= 19
                THEN zoneOf(SubSeq(s, IF hasMs THEN 24 ELSE 20, Len(s)))
                ELSE NaN
    IN IF \/ Len(s) < 19
          \/ s[5] # "-" \/ s[8] # "-" \/ s[11] # "T" \/ s[14] # ":" \/ s[17] # ":"
          \/ isNaN(y) \/ isNaN(mo) \/ isNaN(d) \/ isNaN(h) \/ isNaN(mi) \/ isNaN(sec)
          \/ isNaN(ms) \/ isNaN(zone)
       THEN NaN
       ELSE IF \/ mo[1] < 1 \/ mo[1] > 12 \/ d[1] < 1 \/ d[1] > DaysInMonth(y[1], mo[1])
               \/ h[1] > 23 \/ mi[1] > 59 \/ sec[1] > 59
            THEN NaN
            ELSE <<MakeDay(y[1], mo[1] - 1, d[1]) * DayMs
                   + ((h[1] * 60 + mi[1]) * 60 + sec[1]) * 1000 + ms[1] + zone[1]>>

\* midnight of the UTC day that holds instant t
setUTCHoursStart(t) == (t \div DayMs) * DayMs
\* date.setHours(0, 0, 0, 0): midnight of the local day that holds instant t
setHoursStart(t) == ((t - HostOffset) \div DayMs) * DayMs + HostOffset
\* date.setHours(23, 59, 59, 999)
setHoursEnd(t) == setHoursStart(t) + DayMs - 1

\* Date.prototype.toISOString: YYYY-MM-DDTHH:mm:ss.sssZ
TwoDigits ==
    [n \in 0..99 |-> <<DigitChar(n \div 10), DigitChar(n % 10)>>]
YearMonthDay(days) ==
    LET z == days + 719468
        era == z \div 146097
        doe == z - era * 146097
        yoe == (doe - (doe \div 1460) + (doe \div 36524) - (doe \div 146096)) \div 365
        doy == doe - (365 * yoe + (yoe \div 4) - (yoe \div 100))
        mp == (5 * doy + 2) \div 153
        d == doy - ((153 * mp + 2) \div 5) + 1
        m == IF mp < 10 THEN mp + 3 ELSE mp - 9
    IN [year |-> yoe + era * 400 + (IF m <= 2 THEN 1 ELSE 0), month |-> m, day |-> d]
toISOString(t) ==
    LET ymd == YearMonthDay(t \div DayMs)
        r == t % DayMs
    IN TwoDigits[ymd.year \div 100] \o TwoDigits[ymd.year % 100] \o <<"-">>
       \o TwoDigits[ymd.month] \o <<"-">> \o TwoDigits[ymd.day] \o <<"T">>
       \o TwoDigits[r \div 3600000] \o <<":">> \o TwoDigits[(r \div 60000) % 60] \o <<":">>
       \o TwoDigits[(r \div 1000) % 60] \o <<".", DigitChar((r % 1000) \div 100)>>
       \o TwoDigits[r % 100] \o <<"Z">>
\* a TIMESTAMP WITH TIME ZONE column as the database client returns it:
\* null, or the text YYYY-MM-DDTHH:mm:ss+00:00
timestamptz(column) ==
    IF column = NULL THEN JSNull
    ELSE Str(SubSeq(toISOString(column), 1, 19) \o <<"+", "0", "0", ":", "0", "0">>)

\* the Date the helpers build before setHours
dateOf(text, msOfDay) ==
    IF includes(text, "T") THEN DateParse(text)
    ELSE LET p == split(text)
             month == numberAt(p, 2)
         IN DateFromParts(numberAt(p, 1),
                          IF isNaN(month) THEN NaN ELSE <<month[1] - 1>>,
                          numberAt(p, 3), msOfDay)

\* StravaAPI.getStartOfDayUTC / getEndOfDayUTC (t: the time of the call);
\* the result is null (NULL) or the Date's instant
getStartOfDayUTC(dateTimeStr) ==
    IF Falsy(dateTimeStr) THEN NULL
    ELSE LET date == dateOf(dateTimeStr.text, 0)
         IN IF isNaN(date) THEN NULL ELSE setHoursStart(date[1])
getEndOfDayUTC(dateTimeStr, t) ==
    IF Falsy(dateTimeStr) THEN t
    ELSE LET date == dateOf(dateTimeStr.text, DayMs - 1)
         IN IF isNaN(date) THEN NULL ELSE setHoursEnd(date[1])

\* the admin page's getStartOfDay / getEndOfDay
getStartOfDay(dateTimeStr) ==
    IF Falsy(dateTimeStr) THEN NULL
    ELSE LET date == dateOf(dateTimeStr.text, 0)
         IN IF isNaN(date) THEN NULL ELSE setHoursStart(date[1])
getEndOfDay(dateTimeStr, t) ==
    IF Falsy(dateTimeStr) THEN t
    ELSE LET date == dateOf(dateTimeStr.text, DayMs - 1)
         IN IF isNaN(date) THEN t ELSE setHoursEnd(date[1])

\* ------------------------------------------------- the event and its window
\* the running event starts at 01:00 UTC of the first day; it ends that day
\* or has no end date
EventStart == 60 * 60 * 1000
EventEnds == {NULL, 2 * 60 * 60 * 1000}
NoEvent == [start_date |-> EventStart, end_date |-> NULL,
            activity_table_name |-> NULL, activity_table_created |-> FALSE]

\* the instants the events table holds and the clock shows
ColumnInstants == {EventStart, 0, 250 * 1000, 600 * 1000, 400 * 1000, 2 * 60 * 60 * 1000}
ClockReadings ==
    {k * CoarseStep : k \in 0..MaxTicks} \cup {k * TableStep : k \in 0..MaxTableTicks}
\* the day bounds of a column value, through the text the client returns
columnDay ==
    [c \in ColumnInstants |->
        [startUTC |-> getStartOfDayUTC(timestamptz(c)),
         endUTC |-> getEndOfDayUTC(timestamptz(c), 0),
         start |-> getStartOfDay(timestamptz(c)),
         end |-> getEndOfDay(timestamptz(c), 0)]]
\* getEndOfDayUTC(new Date().toISOString()) at clock reading t
clockDayEnd == [t \in ClockReadings |-> getEndOfDayUTC(Str(toISOString(t)), t)]

\* syncActivitiesToEventTable: startObj, endObj, called at time t
\*   getEndOfDayUTC(event.end_date || new Date().toISOString())
syncWindow(ev, t) ==
    [startTs |-> columnDay[ev.start_date].startUTC,
     endTs |-> IF Falsy(timestamptz(ev.end_date))
               THEN clockDayEnd[t]
               ELSE columnDay[ev.end_date].endUTC]

\* saveActivitiesToEventTable(tableName, userEmail, activities, startDate,
\* endDate), called at time t with '${event.end_date || ''}'
adminWindow(ev, t) ==
    [startTs |-> columnDay[ev.start_date].start,
     endTs |-> IF Falsy(timestamptz(ev.end_date))
               THEN getEndOfDay(Str(<<>>), t)
               ELSE columnDay[ev.end_date].end]

\* String.prototype.toLowerCase on the category strings that occur
toLowerCase(str) ==
    CASE str = "Yoga" -> "yoga"
      [] str = "EBikeRide" -> "ebikeride"
      [] str = "Run" -> "run"
      [] str = "Swim" -> "swim"
      [] str = "Cycling" -> "cycling"
      [] str = "Crossfit" -> "crossfit"
      [] str = "VirtualRun" -> "virtualrun"
      [] str = "E-BikeRide" -> "e-bikeride"
      [] OTHER -> str

\* property names every object literal inherits from Object.prototype
ObjectPrototypeKeys ==
    {"constructor", "toString", "valueOf", "hasOwnProperty", "isPrototypeOf",
     "propertyIsEnumerable", "toLocaleString", "__proto__"}
\* the value of such a property (a function or an object, not a category)
InheritedMember == "[inherited member of Object.prototype]"

\* StravaAPI.normalizeActivityType: typeMap[stravaType] || stravaType.toLowerCase()
normalizeActivityType(stravaType) ==
    CASE stravaType = "Ride" -> "cycling"
      [] stravaType = "VirtualRide" -> "cycling"
      [] stravaType = "E-BikeRide" -> "cycling"
      [] stravaType = "Run" -> "run"
      [] stravaType = "VirtualRun" -> "run"
      [] stravaType = "Walk" -> "walk"
      [] stravaType = "Hike" -> "hiking"
      [] stravaType = "Swim" -> "swimming"
      [] stravaType \in ObjectPrototypeKeys -> InheritedMember
      [] OTHER -> toLowerCase(stravaType)

\* StravaAPI.transformActivities: every property is set, to undefined when the
\* raw activity lacks it
transformActivity(act, userEmail) ==
    [user_email |-> userEmail,
     strava_id |-> Get(act, "id"),
     type |-> normalizeActivityType(act.type),
     distance |-> Get(act, "distance"),
     start_date |-> Get(act, "start_date_local")]
transformActivities(activities, userEmail) ==
    [i \in 1..Len(activities) |-> transformActivity(activities[i], userEmail)]

\* JSON.stringify of one activity object drops the properties whose value is
\* undefined; the text is represented by the value it denotes
NumericProps == {"strava_id", "distance", "start_date"}
JSONStringifyActivity(a) ==
    [f \in {g \in DOMAIN a : ~(g \in NumericProps /\ a[g] = UNDEF)} |-> a[f]]
JSONStringify(data) ==
    [activities |-> [i \in 1..Len(data.activities) |-> JSONStringifyActivity(data.activities[i])],
     timestamp |-> data.timestamp]
JSONParse(text) == text

\* ------------------------------------------------- StravaAPI: on-demand cache
\* getCacheKey(userEmail, suffix = '')
getCacheKey(userEmail, suffix) ==
    CACHE_KEY_PREFIX \o userEmail \o (IF suffix # <<>> THEN <<"_">> \o suffix ELSE <<>>)

\* the cacheKey of fetchActivitiesOnDemand:
\*   options.after ? `range_${options.after}_${options.before || 'now'}` : 'recent'
queryCacheKey(options) ==
    IF Truthy(options.after)
    THEN <<"r", "a", "n", "g", "e", "_">> \o Digits(options.after) \o <<"_">>
         \o (IF Truthy(options.before) THEN Digits(options.before) ELSE <<"n", "o", "w">>)
    ELSE <<"r", "e", "c", "e", "n", "t">>

\* the query string fetchActivities sends: after / before are appended only
\* when truthy
requestQuery(options) ==
    [after |-> IF Truthy(options.after) THEN options.after ELSE UNDEF,
     before |-> IF Truthy(options.before) THEN options.before ELSE UNDEF]

NoData == [activities |-> <<>>, timestamp |-> NULL]

\* a getCachedActivities that reports an expired entry absent and leaves it
getCachedActivitiesKeepsExpired(store, userEmail, suffix, t) ==
    LET key == getCacheKey(userEmail, suffix) IN
    IF key \notin DOMAIN store
    THEN [hit |-> FALSE, data |-> NoData, store |-> store]
    ELSE LET data == JSONParse(store[key]) IN
         IF t - data.timestamp > CACHE_TTL
         THEN [hit |-> FALSE, data |-> NoData, store |-> store]
         ELSE [hit |-> TRUE, data |-> data, store |-> store]

\* getCachedActivities at time t: the value returned and sessionStorage after
getCachedActivities(store, userEmail, suffix, t) ==
    LET key == getCacheKey(userEmail, suffix) IN
    IF key \notin DOMAIN store
    THEN [hit |-> FALSE, data |-> NoData, store |-> store]
    ELSE LET data == JSONParse(store[key]) IN
         IF t - data.timestamp > CACHE_TTL
         THEN [hit |-> FALSE, data |-> NoData, store |-> Remove(store, key)]
         ELSE [hit |-> TRUE, data |-> data, store |-> store]

\* setCachedActivities at time t; a setItem that throws (quota) is swallowed
setCachedActivities(store, userEmail, activities, suffix, t, quotaOk) ==
    IF quotaOk
    THEN Put(store, getCacheKey(userEmail, suffix),
             JSONStringify([activities |-> activities, timestamp |-> t]))
    ELSE store

\* clearCache: removes every key that starts with the user's bare cache key
clearCacheKeys(store, userEmail) ==
    {k \in DOMAIN store : StartsWith(k, getCacheKey(userEmail, <<>>))}
clearCache(store, userEmail) ==
    [k \in (DOMAIN store) \ clearCacheKeys(store, userEmail) |-> store[k]]

\* ------------------------------------------------- the events table
\* event names, as character sequences (table names are built from them)
NameRun1 == <<"R", "u", "n", " ", "1">>
NameRunDash1 == <<"r", "u", "n", "-", "1">>
NameTri == <<"T", "r", "i">>
EventIds == {1, 2, 3}
\* SQL NULL in a text column that holds a table name (no table name is empty)
NoTable == <<>>
\* an id no events row has
MissingEvent == 0
\* the rows of the events table before any activity table exists:
\* event 1 has started and ends 400 s in, event 2 starts 250 s in,
\* event 3 starts 600 s in
EventRecords ==
    [e \in EventIds |->
        [id |-> e,
         name |-> <<NameRun1, NameRunDash1, NameTri>>[e],
         start_date |-> <<0, 250 * 1000, 600 * 1000>>[e],
         end_date |-> <<400 * 1000, NULL, NULL>>[e],
         is_active |-> TRUE,
         activity_table_name |-> NoTable,
         activity_table_created |-> FALSE]]

UpperLetters == <<"A", "B", "C", "D", "E", "F", "G", "H", "I", "J", "K", "L", "M",
                  "N", "O", "P", "Q", "R", "S", "T", "U", "V", "W", "X", "Y", "Z">>
LowerLetters == <<"a", "b", "c", "d", "e", "f", "g", "h", "i", "j", "k", "l", "m",
                  "n", "o", "p", "q", "r", "s", "t", "u", "v", "w", "x", "y", "z">>
\* the characters of the class [a-z0-9]
LowerAlnum ==
    {LowerLetters[k] : k \in 1..26} \cup {DigitChar(d) : d \in 0..9}

\* SQL lower() on a character sequence
lower(s) ==
    [i \in 1..Len(s) |->
        IF \E k \in 1..26 : UpperLetters[k] = s[i]
        THEN LowerLetters[CHOOSE k \in 1..26 : UpperLetters[k] = s[i]]
        ELSE s[i]]

\* regexp_replace(s, '[^a-z0-9]', '_', 'g')
replaceNonAlnum(s) ==
    [i \in 1..Len(s) |-> IF s[i] \in LowerAlnum THEN s[i] ELSE "_"]

\* regexp_replace(s, '_+', '_', 'g')
RECURSIVE squeezeUnderscores(_)
squeezeUnderscores(s) ==
    IF Len(s) < 2 THEN s
    ELSE IF s[1] = "_" /\ s[2] = "_" THEN squeezeUnderscores(Tail(s))
    ELSE <<s[1]>> \o squeezeUnderscores(Tail(s))

\* trim(both '_' from s)
RECURSIVE trimBoth(_)
trimBoth(s) ==
    IF s = <<>> THEN s
    ELSE IF s[1] = "_" THEN trimBoth(Tail(s))
    ELSE IF s[Len(s)] = "_" THEN trimBoth(SubSeq(s, 1, Len(s) - 1))
    ELSE s

\* SQL left(s, n)
left(s, n) == SubSeq(s, 1, IF Len(s) < n THEN Len(s) ELSE n)

TablePrefix ==
    <<"e", "v", "e", "n", "t", "_", "a", "c", "t", "i", "v", "i", "t", "i", "e", "s", "_">>
\* the longest identifier PostgreSQL keeps
MaxIdentifier == 63

\* sanitize_table_name(event_name)
sanitize_table_name(event_name) ==
    LET sanitized ==
            TablePrefix \o trimBoth(squeezeUnderscores(replaceNonAlnum(lower(event_name))))
    IN IF Len(sanitized) > MaxIdentifier THEN left(sanitized, MaxIdentifier) ELSE sanitized

\* create_event_activity_table(event_id) on the events table evs and the
\* table catalogue tabs: the state it leaves and what it returns
create_event_activity_table(evs, tabs, event_id) ==
    IF event_id \notin DOMAIN evs
    THEN [events |-> evs, tables |-> tabs, raised |-> TRUE, updated |-> FALSE, data |-> NULL]
    ELSE
    LET event_record == evs[event_id]
        v_table_name == sanitize_table_name(event_record.name)
        marked == [evs EXCEPT ![event_id].activity_table_name = v_table_name,
                              ![event_id].activity_table_created = TRUE]
    IN IF event_record.activity_table_created = TRUE
       THEN [events |-> evs, tables |-> tabs, raised |-> FALSE, updated |-> FALSE,
             data |-> event_record.activity_table_name]
       ELSE IF v_table_name \in tabs
       THEN [events |-> marked, tables |-> tabs, raised |-> FALSE, updated |-> TRUE,
             data |-> v_table_name]
       ELSE [events |-> marked, tables |-> tabs \cup {v_table_name}, raised |-> FALSE,
             updated |-> TRUE, data |-> v_table_name]

\* delete_event_activity_table(event_id)
delete_event_activity_table(evs, tabs, event_id) ==
    IF event_id \notin DOMAIN evs
    THEN [events |-> evs, tables |-> tabs, raised |-> TRUE, data |-> FALSE]
    ELSE IF evs[event_id].activity_table_name = NoTable
    THEN [events |-> evs, tables |-> tabs, raised |-> FALSE, data |-> FALSE]
    ELSE [events |-> [evs EXCEPT ![event_id].activity_table_name = NoTable,
                                 ![event_id].activity_table_created = FALSE],
          tables |-> tabs \ {evs[event_id].activity_table_name},
          raised |-> FALSE, data |-> TRUE]

\* the event_registrations rows, in the order a select returns them
EventRegistrations ==
    <<[user_email |-> UserA, event_id |-> 1, payment_status |-> "paid"],
      [user_email |-> UserA, event_id |-> 2, payment_status |-> "paid"],
      [user_email |-> UserA, event_id |-> 3, payment_status |-> "pending"],
      [user_email |-> UserC, event_id |-> 1, payment_status |-> "paid"],
      [user_email |-> UserB, event_id |-> 2, payment_status |-> "pending"],
      [user_email |-> UserC, event_id |-> 3, payment_status |-> "paid"]>>
\* what the activities endpoint returns to a sync of autoSyncUserActivities
AutoAnswers == {<<>>, <<RawRun, RawYoga>>}

\* ------------------------------------------------------------------ state
VARIABLES
    now,             \* Date.now(), milliseconds
    ticks,           \* how often the clock was advanced
    profiles,        \* the profiles table: e-mail -> Strava columns
    provider,        \* the token endpoint's side: per athlete, tokens issued
    pages,           \* per user, the profile object the loaded page holds
    ops,             \* the asynchronous calls in flight, by slot
    sessionStorage,  \* the browser's sessionStorage: key -> JSON text
    event,           \* the events row of the running event (table columns)
    eventRows,       \* the event's activity table: its set of rows
    filledBy,        \* history: per cache key, who wrote it, for which query,
                     \*          with which activities, when
    cacheCall,       \* history: the last direct call of a cache method
    events,          \* the events table: id -> row
    tables,          \* information_schema.tables: the names of the activity tables
    provisionedAt,   \* history: per event, when its row was given a table
    eventsCache,     \* the leaderboard page's eventsCache: id -> event object
    adminEvents,     \* the admin page's event cards: id -> which buttons it shows
    auto,            \* the autoSyncUserActivities call in flight
    board,           \* a leaderboard page: what a render found and what it shows
    norm,            \* a call of transformActivities: its argument and its outcome
    dates,           \* a call of the four day-bound helpers: its argument and results
    range,           \* a call that fetches by date range: its dates and what it did
    view,            \* the leaderboard page: its selection, renders in flight, display
    typed,           \* one raw activity as each sync path stored it
    dash             \* the dashboard page: localStorage, loads and the auto-sync

\* the on-demand fetch, the cache and the single event table
coreVars == <<now, ticks, profiles, provider, pages, ops, sessionStorage, event, eventRows,
              filledBy, cacheCall>>
\* the events table and the pages that provision activity tables
tableVars == <<events, tables, provisionedAt, eventsCache, adminEvents, auto>>
\* the helpers and pages checked on their own
lateVars == <<dates, range, view, typed, dash>>
siteVars == <<tableVars, board, norm, lateVars>>

vars == <<now, ticks, profiles, provider, pages, ops, sessionStorage, event, eventRows,
          filledBy, cacheCall, siteVars>>

\* a profiles row of a user who never linked Strava (signup inserts
\* strava_connected: false and no token columns)
NoCred ==
    [strava_access_token |-> NULL, strava_refresh_token |-> NULL,
     strava_token_expires_at |-> NULL, strava_athlete_id |-> NULL,
     strava_connected |-> FALSE]

\* the answer of the token endpoint
NoTokenData == [access_token |-> NULL, refresh_token |-> NULL, expires_at |-> NULL, athlete |-> UNDEF]

\* options of fetchActivitiesOnDemand
NoOptions == [after |-> UNDEF, before |-> UNDEF, forceRefresh |-> FALSE]
NoQuery == [after |-> UNDEF, before |-> UNDEF]

\* one asynchronous call at a time
Slots == {1}

\* the cache and the event table as an operation found them when it was called
NoSnapshot == [cache |-> EmptyMap, rows |-> {}]

IdleOp ==
    [kind |-> "none", pc |-> "idle", user |-> UserA, profile |-> NoCred,
     options |-> NoOptions, cacheKey |-> <<>>,
     tokenData |-> NoTokenData, accessToken |-> NULL, saved |-> FALSE,
     how |-> "none", calledAt |-> NULL,
     refreshSent |-> NULL, refreshCurrent |-> NULL,
     tokenReqs |-> 0, actReqs |-> 0, writes |-> 0,
     idx |-> 0, pending |-> <<>>, synced |-> 0, skipped |-> 0,
     syncedCount |-> 0, errorCount |-> 0, noStravaCount |-> 0,
     rawActivities |-> <<>>, found |-> 0, before |-> NoSnapshot,
     result |-> "none", ret |-> <<>>, servedQuery |-> NoQuery]

NoEntry == [present |-> FALSE, user |-> UserA, query |-> NoQuery, activities |-> <<>>, at |-> NULL]
NoCacheCall ==
    [method |-> "none", user |-> UserA, suffix |-> <<>>, at |-> NULL,
     entry |-> NoEntry, hit |-> FALSE, data |-> NoData]

\* no error property in a detail entry of autoSyncUserActivities
NoError == "none"
\* a detail entry with no property but the event's name
NoDetail == [eventName |-> <<>>, synced |-> UNDEF, skipped |-> UNDEF,
             tableName |-> NoTable, error |-> NoError]
IdleAuto ==
    [pc |-> "idle", user |-> UserA, activeEvents |-> <<>>, idx |-> 0,
     tableName |-> NoTable, results |-> <<>>,
     ret |-> [events |-> 0, totalSynced |-> 0, detailed |-> FALSE, details |-> <<>>]]

\* no activity table exists, no page has loaded the events
TableInit ==
    /\ events = EventRecords
    /\ tables = EmptyMap
    /\ provisionedAt = [e \in EventIds |-> NULL]
    /\ eventsCache = EmptyMap
    /\ adminEvents = EmptyMap
    /\ auto = IdleAuto

\* a leaderboard page that has rendered nothing
NoBoard ==
    [pc |-> "idle", variant |-> "none", eventId |-> 1, activityFilter |-> "all",
     activities |-> <<>>, profilesOk |-> TRUE, connected |-> {},
     shown |-> "none", users |-> <<>>]
\* no call of transformActivities
NoNorm == [pc |-> "idle", activities |-> <<>>, threw |-> FALSE, out |-> <<>>]

\* no call of the day-bound helpers
NoDates == [pc |-> "idle", input |-> JSNull, at |-> 0,
            startUTC |-> NULL, endUTC |-> NULL, start |-> NULL, end |-> NULL]
\* no call that fetches by date range
NoRange ==
    [pc |-> "idle", caller |-> "none", startDate |-> JSNull, endDate |-> JSNull,
     at |-> 0, startTs |-> NULL, endTs |-> NULL, requests |-> <<>>,
     fetched |-> <<>>, rows |-> {}, threw |-> FALSE, ret |-> <<>>]
\* a leaderboard page before initLeaderboard: nothing selected, no render
NoView ==
    [eventId |-> NULL, activityFilter |-> "all",
     renders |-> [s \in {1, 2} |-> [pc |-> "idle", eventId |-> 1,
                                    activityFilter |-> "all", profilesOk |-> TRUE]],
     body |-> [shown |-> "none", users |-> <<>>], changes |-> 0, written |-> FALSE]
\* no activity followed through the two syncs
NoTyped ==
    [pc |-> "idle", act |-> [id |-> 21, type |-> "Run", start_date_local |-> 0,
                             distance |-> 0],
     row |-> [user_email |-> <<>>, strava_id |-> 21, activity_type |-> "",
              activity_date |-> 0, distance |-> 0],
     first |-> [user_email |-> <<>>, strava_id |-> 21, activity_type |-> "",
                activity_date |-> 0, distance |-> 0],
     by |-> "none", writes |-> 0]
\* a browser in which the dashboard was never opened: no last_strava_sync
NoDash == [pc |-> "idle", lastSync |-> NULL, now |-> 0, seen |-> NULL,
           byReload |-> FALSE]

LateInit ==
    /\ dates = NoDates
    /\ range = NoRange
    /\ view = NoView
    /\ typed = NoTyped
    /\ dash = NoDash

SiteInit ==
    /\ TableInit
    /\ board = NoBoard
    /\ norm = NoNorm
    /\ LateInit

\* nobody has linked Strava, no page is loaded, the cache is empty
CoreInit ==
    /\ now = 0
    /\ ticks = 0
    /\ profiles = [u \in Accounts |-> NoCred]
    /\ provider = [u \in Accounts |-> [gen |-> 0, refresh_token |-> NULL]]
    /\ pages = [u \in Accounts |-> [loaded |-> FALSE, profile |-> NoCred]]
    /\ ops = [o \in Slots |-> IdleOp]
    /\ sessionStorage = EmptyMap
    /\ event = NoEvent
    /\ eventRows = {}
    /\ filledBy = EmptyMap
    /\ cacheCall = NoCacheCall

Init == CoreInit /\ SiteInit

\* ------------------------------------------------------------------ clock
Tick(d, max) ==
    /\ ticks < max
    /\ now' = now + d
    /\ ticks' = ticks + 1
    /\ UNCHANGED <<profiles, provider, pages, ops, sessionStorage, event, eventRows, filledBy, cacheCall, siteVars>>

TickCoarse == Tick(CoarseStep, MaxTicks)
TickFine == \E d \in FineSteps : Tick(d, MaxFineTicks)
TickTable == Tick(TableStep, MaxTableTicks)

\* ------------------------------------------------- token endpoint (Strava)
\* the answers the token endpoint can give to a grant for athlete u at time t:
\* a new access token, the refresh token kept or rotated, the athlete summary
GrantAnswers(u, t) ==
    IF provider[u].gen >= MaxGen THEN {}
    ELSE LET g == provider[u].gen + 1 IN
         {[access_token |-> g, refresh_token |-> r, expires_at |-> (t \div 1000) + l,
           athlete |-> AthleteOf(u)] :
            r \in {g} \cup ({provider[u].refresh_token} \ {NULL}), l \in Lifetimes}

\* the answers to a refresh_token request: none (non-2xx) when the token sent
\* is not the athlete's current refresh token; the answer carries no athlete
RefreshAnswers(u, sent, t) ==
    IF provider[u].gen >= MaxGen \/ ~Truthy(sent) \/ sent # provider[u].refresh_token THEN {}
    ELSE LET g == provider[u].gen + 1 IN
         {[access_token |-> g, refresh_token |-> r, expires_at |-> (t \div 1000) + l,
           athlete |-> a] :
            r \in {g, provider[u].refresh_token}, l \in Lifetimes, a \in {UNDEF}}

Issue(u, data) ==
    [provider EXCEPT ![u] = [gen |-> data.access_token, refresh_token |-> data.refresh_token]]

\* ------------------------------------------------- StravaAPI.saveTokensToDatabase
\* the row the update({...}).eq('email', userEmail) leaves
\*   strava_athlete_id: tokenData.athlete?.id?.toString() || null
savedRow(row, tokenData) ==
    [row EXCEPT !.strava_access_token = tokenData.access_token,
                !.strava_refresh_token = tokenData.refresh_token,
                !.strava_token_expires_at = tokenData.expires_at,
                !.strava_athlete_id = IF Truthy(tokenData.athlete) THEN tokenData.athlete ELSE NULL,
                !.strava_connected = TRUE]

\* ------------------------------------------------- steps of an async call
\* a throw that reaches the caller of the operation
\* an operation that has returned or thrown keeps what its caller sees and the
\* requests it made; its locals are gone
finished(op, result, ret) ==
    [IdleOp EXCEPT !.kind = op.kind, !.user = op.user, !.pc = "done",
                   !.result = result, !.ret = ret,
                   !.rawActivities = op.rawActivities, !.found = op.found,
                   !.tokenReqs = op.tokenReqs, !.actReqs = op.actReqs,
                   !.writes = op.writes, !.synced = op.synced, !.skipped = op.skipped,
                   !.syncedCount = op.syncedCount, !.errorCount = op.errorCount,
                   !.noStravaCount = op.noStravaCount]

throw(op, error) == finished(op, error, <<>>)

\* StravaAPI.fetchActivities: the GET leaves with this bearer token
callFetchActivities(op, accessToken, how) ==
    [op EXCEPT !.pc = "awaitFetch", !.accessToken = accessToken, !.how = how,
               !.actReqs = @ + 1]

\* StravaAPI.refreshToken: the POST leaves with this refresh token
callRefreshToken(op, refreshToken, current) ==
    [op EXCEPT !.pc = "awaitRefresh", !.tokenReqs = @ + 1,
               !.refreshSent = refreshToken, !.refreshCurrent = current]

\* a getValidAccessToken without the check that both tokens are present
getValidAccessTokenNoCheck(op, t, current) ==
    LET profile == op.profile
        called == [op EXCEPT !.calledAt = t] IN
    IF isTokenExpired(profile.strava_token_expires_at, t)
    THEN callRefreshToken(called, profile.strava_refresh_token, current)
    ELSE callFetchActivities(called, profile.strava_access_token, "checked")

\* StravaAPI.getValidAccessToken(profile) up to its first await, return or
\* throw, followed by the caller's fetchActivities when it returns at once.
\* current: the refresh token the provider holds for the athlete (history)
getValidAccessToken(op, t, current) ==
    LET profile == op.profile
        called == [op EXCEPT !.calledAt = t] IN
    IF ~Truthy(profile.strava_access_token) \/ ~Truthy(profile.strava_refresh_token)
    THEN throw(called, "NotConnected")
    ELSE IF isTokenExpired(profile.strava_token_expires_at, t)
    THEN callRefreshToken(called, profile.strava_refresh_token, current)
    ELSE callFetchActivities(called, profile.strava_access_token, "checked")

\* ------------------------------------------------- page load
\* a page reads the user's profiles row and keeps it as its profile object
LoadPage(u) ==
    /\ pages' = [pages EXCEPT ![u] = [loaded |-> TRUE, profile |-> profiles[u]]]
    /\ UNCHANGED <<now, ticks, profiles, provider, ops, sessionStorage, event, eventRows, filledBy, cacheCall, siteVars>>

\* ------------------------------------------------- OAuth callback (grant)
StartGrant(o, u) ==
    /\ ops[o].pc \in {"idle", "done"}
    /\ ops' = [ops EXCEPT ![o] = [IdleOp EXCEPT !.kind = "grant", !.user = u,
                                                !.pc = "awaitExchange", !.tokenReqs = 1]]
    /\ UNCHANGED <<now, ticks, profiles, provider, pages, sessionStorage, event, eventRows, filledBy, cacheCall, siteVars>>

\* exchangeToken answered 2xx: saveTokensToDatabase sends its update
ExchangeOk(o) ==
    /\ ops[o].pc = "awaitExchange"
    /\ \E data \in GrantAnswers(ops[o].user, now) :
        /\ provider' = Issue(ops[o].user, data)
        /\ ops' = [ops EXCEPT ![o] = [@ EXCEPT !.pc = "awaitSave", !.tokenData = data]]
    /\ UNCHANGED <<now, ticks, profiles, pages, sessionStorage, event, eventRows, filledBy, cacheCall, siteVars>>

ExchangeFail(o) ==
    /\ ops[o].pc = "awaitExchange"
    /\ ops' = [ops EXCEPT ![o] = throw(@, "ExchangeFailed")]
    /\ UNCHANGED <<now, ticks, profiles, provider, pages, sessionStorage, event, eventRows, filledBy, cacheCall, siteVars>>

\* ------------------------------------------------- fetchActivitiesOnDemand
\* a cache read that ignores the forceRefresh flag
onDemandCacheReadAlways(store, u, options, t) ==
    getCachedActivities(store, u, queryCacheKey(options), t)

\* if (!options.forceRefresh) { cached = this.getCachedActivities(...) }
onDemandCacheRead(store, u, options, t) ==
    IF options.forceRefresh
    THEN [hit |-> FALSE, data |-> NoData, store |-> store]
    ELSE getCachedActivities(store, u, queryCacheKey(options), t)

FetchActivitiesOnDemand(o, u, options) ==
    /\ ops[o].pc \in {"idle", "done"}
    /\ pages[u].loaded
    /\ LET cacheKey == queryCacheKey(options)
           key == getCacheKey(u, cacheKey)
           read == onDemandCacheRead(sessionStorage, u, options, now)
           op == [IdleOp EXCEPT !.kind = "onDemand", !.user = u,
                                !.profile = pages[u].profile,
                                !.options = options, !.cacheKey = cacheKey,
                                !.before = [cache |-> sessionStorage, rows |-> eventRows]]
       IN /\ sessionStorage' = read.store
          /\ filledBy' = [k \in DOMAIN read.store |-> filledBy[k]]
          /\ ops' = [ops EXCEPT ![o] =
                IF read.hit
                THEN [finished(op, "cached", read.data.activities)
                        EXCEPT !.options = options, !.servedQuery = filledBy[key].query]
                ELSE getValidAccessToken(op, now, provider[u].refresh_token)]
    /\ UNCHANGED <<now, ticks, profiles, provider, pages, event, eventRows, cacheCall, siteVars>>

\* the token endpoint answered the refresh 2xx: saveTokensToDatabase is called
RefreshOk(o) ==
    /\ ops[o].pc = "awaitRefresh"
    /\ ops[o].kind \in {"onDemand", "sync"}
    /\ \E data \in RefreshAnswers(ops[o].user, ops[o].refreshSent, now) :
        /\ provider' = Issue(ops[o].user, data)
        /\ ops' = [ops EXCEPT ![o] = [@ EXCEPT !.pc = "awaitSave", !.tokenData = data]]
    /\ UNCHANGED <<now, ticks, profiles, pages, sessionStorage, event, eventRows, filledBy, cacheCall, siteVars>>

\* a refreshToken that tries once more before it gives up
RefreshFailRetry(o) ==
    /\ ops[o].pc = "awaitRefresh"
    /\ ops[o].kind \in {"onDemand", "sync"}
    /\ ops' = [ops EXCEPT ![o] = IF @.tokenReqs < 2
                                 THEN callRefreshToken(@, @.refreshSent, @.refreshCurrent)
                                 ELSE throw(@, "RefreshFailed")]
    /\ UNCHANGED <<now, ticks, profiles, provider, pages, sessionStorage, event, eventRows, filledBy, cacheCall, siteVars>>

\* network error or non-2xx: refreshToken throws, nothing catches it
RefreshFail(o) ==
    /\ ops[o].pc = "awaitRefresh"
    /\ ops[o].kind \in {"onDemand", "sync"}
    /\ ops' = [ops EXCEPT ![o] = throw(@, "RefreshFailed")]
    /\ UNCHANGED <<now, ticks, profiles, provider, pages, sessionStorage, event, eventRows, filledBy, cacheCall, siteVars>>

\* the profiles update succeeded: getValidAccessToken returns the new access
\* token and the caller sends its activities request (the grant is complete)
SaveOk(o) ==
    /\ ops[o].pc = "awaitSave"
    /\ ops[o].kind \in {"grant", "onDemand", "sync"}
    /\ profiles' = [profiles EXCEPT ![ops[o].user] = savedRow(@, ops[o].tokenData)]
    /\ ops' = [ops EXCEPT ![o] =
          IF @.kind = "grant"
          THEN finished([@ EXCEPT !.writes = @ + 1], "ok", <<>>)
          ELSE callFetchActivities([@ EXCEPT !.writes = @ + 1, !.saved = TRUE],
                                   @.tokenData.access_token, "refreshed")]
    /\ UNCHANGED <<now, ticks, provider, pages, sessionStorage, event, eventRows, filledBy, cacheCall, siteVars>>

\* the profiles update was rejected: saveTokensToDatabase throws
SaveFail(o) ==
    /\ ops[o].pc = "awaitSave"
    /\ ops[o].kind \in {"grant", "onDemand", "sync"}
    /\ ops' = [ops EXCEPT ![o] = throw(@, "SaveFailed")]
    /\ UNCHANGED <<now, ticks, profiles, provider, pages, sessionStorage, event, eventRows, filledBy, cacheCall, siteVars>>

\* a completion that throws when the write-through is not stored
OnDemandFetchOkNeedsCache(o) ==
    /\ ops[o].pc = "awaitFetch"
    /\ ops[o].kind = "onDemand"
    /\ \E raw \in RawAnswers, quotaOk \in BOOLEAN :
        LET op == ops[o]
            activities == transformActivities(raw, op.user)
            key == getCacheKey(op.user, op.cacheKey) IN
        /\ sessionStorage' = setCachedActivities(sessionStorage, op.user, activities,
                                                 op.cacheKey, now, quotaOk)
        /\ filledBy' = IF quotaOk
                       THEN Put(filledBy, key, [present |-> TRUE, user |-> op.user,
                                                query |-> requestQuery(op.options),
                                                activities |-> activities, at |-> now])
                       ELSE filledBy
        /\ ops' = [ops EXCEPT ![o] =
              IF quotaOk THEN finished([@ EXCEPT !.rawActivities = raw], "ok", activities)
              ELSE throw(@, "QuotaExceeded")]
    /\ UNCHANGED <<now, ticks, profiles, provider, pages, event, eventRows, cacheCall, siteVars>>

\* the activities endpoint answered 2xx: normalize, write through, return
OnDemandFetchOk(o) ==
    /\ ops[o].pc = "awaitFetch"
    /\ ops[o].kind = "onDemand"
    /\ \E raw \in RawAnswers, quotaOk \in BOOLEAN :
        LET op == ops[o]
            activities == transformActivities(raw, op.user)
            key == getCacheKey(op.user, op.cacheKey) IN
        /\ sessionStorage' = setCachedActivities(sessionStorage, op.user, activities,
                                                 op.cacheKey, now, quotaOk)
        /\ filledBy' = IF quotaOk
                       THEN Put(filledBy, key, [present |-> TRUE, user |-> op.user,
                                                query |-> requestQuery(op.options),
                                                activities |-> activities, at |-> now])
                       ELSE filledBy
        /\ ops' = [ops EXCEPT ![o] = finished([@ EXCEPT !.rawActivities = raw], "ok", activities)]
    /\ UNCHANGED <<now, ticks, profiles, provider, pages, event, eventRows, cacheCall, siteVars>>

\* a failure handler that also empties the user's cache
FetchFailClearsCache(o) ==
    /\ ops[o].pc = "awaitFetch"
    /\ ops[o].kind \in {"onDemand", "sync"}
    /\ ops' = [ops EXCEPT ![o] = throw(@, "FetchFailed")]
    /\ sessionStorage' = clearCache(sessionStorage, ops[o].user)
    /\ filledBy' = [k \in DOMAIN sessionStorage' |-> filledBy[k]]
    /\ UNCHANGED <<now, ticks, profiles, provider, pages, event, eventRows, cacheCall, siteVars>>

\* network error or non-2xx from the activities endpoint
FetchFail(o) ==
    /\ ops[o].pc = "awaitFetch"
    /\ ops[o].kind \in {"onDemand", "sync"}
    /\ ops' = [ops EXCEPT ![o] = throw(@, "FetchFailed")]
    /\ UNCHANGED <<now, ticks, profiles, provider, pages, sessionStorage, event, eventRows, filledBy, cacheCall, siteVars>>

\* ------------------------------------------------- dashboard: Unsync Strava
\* update({strava_connected: false, strava_access_token: null}), whose result
\* is not inspected, then location.reload()
Disconnect(u) ==
    /\ pages[u].loaded
    /\ pages[u].profile.strava_connected
    /\ \E ok \in BOOLEAN :
        /\ profiles' = IF ok
                       THEN [profiles EXCEPT ![u].strava_connected = FALSE,
                                             ![u].strava_access_token = NULL]
                       ELSE profiles
        /\ pages' = [pages EXCEPT ![u] = [loaded |-> TRUE, profile |-> profiles'[u]]]
    /\ UNCHANGED <<now, ticks, provider, ops, sessionStorage, event, eventRows, filledBy, cacheCall, siteVars>>

\* ------------------------------------------------- event activity table
\* a filter that lets every activity through
inWindowAll(act, window) == TRUE

\* the client-side filter: actTs >= startTs && actTs <= endTs
inWindow(act, window) == act.start_date >= window.startTs /\ act.start_date <= window.endTs

\* x || 0
OrZero(x) == IF Truthy(x) THEN x ELSE 0

\* the admin page's mapActivityType: typeMap[stravaType] || stravaType.toLowerCase()
mapActivityType(stravaType) ==
    CASE stravaType = "Run" -> "run"
      [] stravaType = "Walk" -> "walk"
      [] stravaType = "Hike" -> "hiking"
      [] stravaType = "Ride" -> "cycling"
      [] stravaType = "VirtualRide" -> "cycling"
      [] stravaType = "Swim" -> "swimming"
      [] stravaType = "EBikeRide" -> "cycling"
      [] stravaType \in ObjectPrototypeKeys -> InheritedMember
      [] OTHER -> toLowerCase(stravaType)

\* the row syncActivitiesToEventTable upserts for one raw activity
syncRow(act, userEmail) ==
    [user_email |-> userEmail, strava_id |-> act.id,
     activity_type |-> normalizeActivityType(act.type),
     activity_date |-> act.start_date_local,
     distance |-> OrZero(Get(act, "distance"))]

\* the row the admin page's saveActivitiesToEventTable upserts
adminRow(act, userEmail) ==
    [user_email |-> userEmail, strava_id |-> act.id,
     activity_type |-> mapActivityType(act.type),
     activity_date |-> act.start_date_local,
     distance |-> OrZero(Get(act, "distance"))]

\* an insert that does not look for a row with the same strava_id
upsertAsInsert(rows, row) == rows \cup {row}

\* upsert(row, {onConflict: 'strava_id'}) into the event table (strava_id is
\* UNIQUE): the row replaces the one that has its strava_id, if there is one
upsert(rows, row) == {r \in rows : r.strava_id # row.strava_id} \cup {row}

\* the paid registrations of the event, in the order the select returns them
Registrations == <<UserA, UserB, UserC>>

\* ------------------------------------------------- syncActivitiesToEventTable
SyncActivitiesToEventTable(o, u) ==
    /\ ops[o].pc \in {"idle", "done"}
    /\ pages[u].loaded
    /\ LET op == [IdleOp EXCEPT !.kind = "sync", !.user = u, !.profile = pages[u].profile,
                                !.before = [cache |-> sessionStorage, rows |-> eventRows]] IN
       ops' = [ops EXCEPT ![o] =
           IF ~Truthy(event.activity_table_name) \/ ~event.activity_table_created
           THEN [op EXCEPT !.pc = "awaitEnsure"]
           ELSE getValidAccessToken(op, now, provider[u].refresh_token)]
    /\ UNCHANGED <<now, ticks, profiles, provider, pages, sessionStorage, event, eventRows, filledBy, cacheCall, siteVars>>

\* create_event_activity_table returned the table name
EnsureOk(o) ==
    /\ ops[o].pc = "awaitEnsure"
    /\ event' = [event EXCEPT !.activity_table_name = 1, !.activity_table_created = TRUE]
    /\ ops' = [ops EXCEPT ![o] = getValidAccessToken(@, now, provider[@.user].refresh_token)]
    /\ UNCHANGED <<now, ticks, profiles, provider, pages, sessionStorage, eventRows, filledBy, cacheCall, siteVars>>

\* the remote procedure failed: ensureEventTableExists returns null
EnsureFail(o) ==
    /\ ops[o].pc = "awaitEnsure"
    /\ ops' = [ops EXCEPT ![o] = throw(@, "NoTable")]
    /\ UNCHANGED <<now, ticks, profiles, provider, pages, sessionStorage, event, eventRows, filledBy, cacheCall, siteVars>>

\* the activities endpoint answered 2xx: filter, map, start the upsert loop
SyncFetchOk(o) ==
    /\ ops[o].pc = "awaitFetch"
    /\ ops[o].kind = "sync"
    /\ \E raw \in EventAnswers, window \in {syncWindow(event, ops[o].calledAt)} :
        LET valid == SelectSeq(raw, LAMBDA act : inWindow(act, window))
            rows == [i \in 1..Len(valid) |-> syncRow(valid[i], ops[o].user)] IN
        ops' = [ops EXCEPT ![o] =
            IF Len(rows) = 0 THEN finished(@, "ok", <<>>)
            ELSE [@ EXCEPT !.pc = "awaitUpsert", !.pending = rows, !.found = Len(rows)]]
    /\ UNCHANGED <<now, ticks, profiles, provider, pages, sessionStorage, event, eventRows, filledBy, cacheCall, siteVars>>

\* ------------------------------------------------- admin: forceSyncAllUsers
\* the next registrant of the loop, or the tally toast after the last one
forceNext(op) ==
    IF op.idx >= Len(Registrations)
    THEN finished(op, "ok", <<>>)
    ELSE [IdleOp EXCEPT !.kind = "force", !.pc = "forceProfile",
                        !.idx = op.idx + 1, !.user = Registrations[op.idx + 1],
                        !.tokenReqs = op.tokenReqs, !.actReqs = op.actReqs,
                        !.writes = op.writes,
                        !.syncedCount = op.syncedCount, !.errorCount = op.errorCount,
                        !.noStravaCount = op.noStravaCount]

ForceSyncAllUsers(o) ==
    /\ ops[o].pc \in {"idle", "done"}
    /\ ops' = [ops EXCEPT ![o] = [IdleOp EXCEPT !.kind = "force", !.pc = "forceRegistrations"]]
    /\ UNCHANGED <<now, ticks, profiles, provider, pages, sessionStorage, event, eventRows, filledBy, cacheCall, siteVars>>

\* the registrations select answered
ForceRegistrations(o) ==
    /\ ops[o].pc = "forceRegistrations"
    /\ \E ok \in BOOLEAN :
        ops' = [ops EXCEPT ![o] = IF ok THEN forceNext(@) ELSE throw(@, "RegistrationsFailed")]
    /\ UNCHANGED <<now, ticks, profiles, provider, pages, sessionStorage, event, eventRows, filledBy, cacheCall, siteVars>>

\* the registrant's profile select answered: no-Strava test, expiry test,
\* then the refresh request or the activities request
ForceProfile(o) ==
    /\ ops[o].pc = "forceProfile"
    /\ \E ok \in BOOLEAN :
        LET op == ops[o]
            profile == profiles[op.user]
            loaded == [op EXCEPT !.profile = profile, !.calledAt = now] IN
        ops' = [ops EXCEPT ![o] =
            IF ~ok \/ ~Truthy(profile.strava_access_token)
            THEN forceNext([op EXCEPT !.noStravaCount = @ + 1])
            ELSE IF adminTokenExpired(profile.strava_token_expires_at, now)
            THEN callRefreshToken(loaded, profile.strava_refresh_token,
                                  provider[op.user].refresh_token)
            ELSE callFetchActivities(loaded, profile.strava_access_token, "adminChecked")]
    /\ UNCHANGED <<now, ticks, profiles, provider, pages, sessionStorage, event, eventRows, filledBy, cacheCall, siteVars>>

\* refreshStravaToken: the token endpoint answered 2xx, the update is sent
ForceRefreshOk(o) ==
    /\ ops[o].pc = "awaitRefresh"
    /\ ops[o].kind = "force"
    /\ \E data \in RefreshAnswers(ops[o].user, ops[o].refreshSent, now) :
        /\ provider' = Issue(ops[o].user, data)
        /\ ops' = [ops EXCEPT ![o] = [@ EXCEPT !.pc = "awaitSave", !.tokenData = data]]
    /\ UNCHANGED <<now, ticks, profiles, pages, sessionStorage, event, eventRows, filledBy, cacheCall, siteVars>>

\* a failed refresh that ends the whole batch
ForceRefreshFailAborts(o) ==
    /\ ops[o].pc = "awaitRefresh"
    /\ ops[o].kind = "force"
    /\ ops' = [ops EXCEPT ![o] = throw([@ EXCEPT !.errorCount = @ + 1], "RefreshFailed")]
    /\ UNCHANGED <<now, ticks, profiles, provider, pages, sessionStorage, event, eventRows, filledBy, cacheCall, siteVars>>

\* refreshStravaToken returns null: the registrant is counted as an error
ForceRefreshFail(o) ==
    /\ ops[o].pc = "awaitRefresh"
    /\ ops[o].kind = "force"
    /\ ops' = [ops EXCEPT ![o] = forceNext([@ EXCEPT !.errorCount = @ + 1])]
    /\ UNCHANGED <<now, ticks, profiles, provider, pages, sessionStorage, event, eventRows, filledBy, cacheCall, siteVars>>

\* the row refreshStravaToken's update leaves (three columns)
adminSavedRow(row, tokenData) ==
    [row EXCEPT !.strava_access_token = tokenData.access_token,
                !.strava_refresh_token = tokenData.refresh_token,
                !.strava_token_expires_at = tokenData.expires_at]

\* what refreshStravaToken returns once its update has answered: the answer's
\* error is not read
adminRefreshReturn(op, saved) ==
    callFetchActivities([op EXCEPT !.writes = IF saved THEN @ + 1 ELSE @,
                                   !.saved = saved],
                        op.tokenData.access_token, "refreshed")

\* refreshStravaToken: the profiles update answered (done or rejected)
ForceSave(o) ==
    /\ ops[o].pc = "awaitSave"
    /\ ops[o].kind = "force"
    /\ \E ok \in BOOLEAN :
        /\ profiles' = IF ok
                       THEN [profiles EXCEPT ![ops[o].user] = adminSavedRow(@, ops[o].tokenData)]
                       ELSE profiles
        /\ ops' = [ops EXCEPT ![o] = adminRefreshReturn(@, ok)]
    /\ UNCHANGED <<now, ticks, provider, pages, sessionStorage, event, eventRows, filledBy, cacheCall, siteVars>>

\* what fetchStravaActivities returns: the answer's list, or an empty list
\* when the request failed or was answered non-2xx
fetchStravaActivities(raw, ok) == IF ok THEN raw ELSE <<>>

\* fetchStravaActivities returned, the endpoint having answered raw (ok) or
\* not (~ok); then saveActivitiesToEventTable filters and starts its upsert
\* loop, or the registrant is counted as synced at once
ForceFetchAnswer(o, raw, ok) ==
    /\ ops[o].pc = "awaitFetch"
    /\ ops[o].kind = "force"
    /\ \E window \in {adminWindow(event, now)} :
       LET activities == fetchStravaActivities(raw, ok)
           valid == SelectSeq(activities, LAMBDA act : inWindow(act, window))
           rows == [i \in 1..Len(valid) |-> adminRow(valid[i], ops[o].user)] IN
       ops' = [ops EXCEPT ![o] =
           IF Len(rows) = 0 THEN forceNext([@ EXCEPT !.syncedCount = @ + 1])
           ELSE [@ EXCEPT !.pc = "awaitUpsert", !.pending = rows]]
    /\ UNCHANGED <<now, ticks, profiles, provider, pages, sessionStorage, event, eventRows, filledBy, cacheCall, siteVars>>

ForceFetch(o) == \E raw \in EventAnswers, ok \in BOOLEAN : ForceFetchAnswer(o, raw, ok)

\* ------------------------------------------------- the upsert loops
\* a loop that gives up at the first rejected upsert
afterUpsertAborts(op, ok) ==
    LET counted == IF op.kind = "sync"
                   THEN [op EXCEPT !.synced = IF ok THEN @ + 1 ELSE @,
                                   !.skipped = IF ok THEN @ ELSE @ + 1,
                                   !.pending = Tail(@)]
                   ELSE [op EXCEPT !.pending = Tail(@)] IN
    IF ~ok THEN throw(counted, "UpsertFailed")
    ELSE IF Len(counted.pending) > 0 THEN counted
    ELSE IF op.kind = "sync" THEN finished(counted, "ok", <<>>)
    ELSE forceNext([counted EXCEPT !.syncedCount = @ + 1])

\* after the answer to one upsert: the next one, or the end of the loop
afterUpsert(op, ok) ==
    LET counted == IF op.kind = "sync"
                   THEN [op EXCEPT !.synced = IF ok THEN @ + 1 ELSE @,
                                   !.skipped = IF ok THEN @ ELSE @ + 1,
                                   !.pending = Tail(@)]
                   ELSE [op EXCEPT !.pending = Tail(@)] IN
    IF Len(counted.pending) > 0 THEN counted
    ELSE IF op.kind = "sync" THEN finished(counted, "ok", <<>>)
    ELSE forceNext([counted EXCEPT !.syncedCount = @ + 1])

\* the persistence service answered the upsert of the first pending row:
\* done (ok) or rejected (~ok)
UpsertAnswer(o, ok) ==
    /\ ops[o].pc = "awaitUpsert"
    /\ eventRows' = IF ok THEN upsert(eventRows, Head(ops[o].pending)) ELSE eventRows
    /\ ops' = [ops EXCEPT ![o] = afterUpsert(@, ok)]
    /\ UNCHANGED <<now, ticks, profiles, provider, pages, sessionStorage, event, filledBy, cacheCall, siteVars>>

Upsert(o) == \E ok \in BOOLEAN : UpsertAnswer(o, ok)

\* options the pages pass: the unscoped query, cached or forced, and a range
\* that starts at the epoch (after: 0)
CredOptions ==
    {NoOptions, [NoOptions EXCEPT !.forceRefresh = TRUE],
     [after |-> 0, before |-> 9, forceRefresh |-> FALSE]}

\* ------------------------------------------------- the cache methods, called directly
\* the query shapes and activity lists the cache methods are called with
CacheOptions == {NoOptions, [after |-> 5, before |-> 9, forceRefresh |-> FALSE]}
CacheSuffixes == {queryCacheKey(options) : options \in CacheOptions}
CacheLists(u) == {transformActivities(raw, u) : raw \in RawAnswers}

GetCached(u, suffix) ==
    LET read == getCachedActivities(sessionStorage, u, suffix, now)
        key == getCacheKey(u, suffix) IN
    /\ sessionStorage' = read.store
    /\ filledBy' = [k \in DOMAIN read.store |-> filledBy[k]]
    /\ cacheCall' = [method |-> "get", user |-> u, suffix |-> suffix, at |-> now,
                     entry |-> IF key \in DOMAIN filledBy THEN filledBy[key] ELSE NoEntry,
                     hit |-> read.hit, data |-> read.data]
    /\ UNCHANGED <<now, ticks, profiles, provider, pages, ops, event, eventRows, siteVars>>

SetCached(u, suffix, activities) ==
    \E quotaOk \in BOOLEAN :
        /\ sessionStorage' = setCachedActivities(sessionStorage, u, activities, suffix, now, quotaOk)
        /\ filledBy' = IF quotaOk
                       THEN Put(filledBy, getCacheKey(u, suffix),
                                [present |-> TRUE, user |-> u, query |-> NoQuery,
                                 activities |-> activities, at |-> now])
                       ELSE filledBy
        /\ cacheCall' = [method |-> "set", user |-> u, suffix |-> suffix, at |-> now,
                         entry |-> NoEntry, hit |-> quotaOk, data |-> NoData]
        /\ UNCHANGED <<now, ticks, profiles, provider, pages, ops, event, eventRows, siteVars>>

ClearCache(u) ==
    /\ sessionStorage' = clearCache(sessionStorage, u)
    /\ filledBy' = [k \in DOMAIN sessionStorage' |-> filledBy[k]]
    /\ cacheCall' = [method |-> "clear", user |-> u, suffix |-> <<>>, at |-> now,
                     entry |-> NoEntry, hit |-> FALSE, data |-> NoData]
    /\ UNCHANGED <<now, ticks, profiles, provider, pages, ops, event, eventRows, siteVars>>

\* the clock, page loads, the Unsync button and the OAuth callback
Account ==
    \/ TickCoarse
    \/ \E u \in Athletes : LoadPage(u)
    \/ \E u \in Athletes : Disconnect(u)
    \/ \E o \in Slots, u \in Athletes : StartGrant(o, u)
    \/ \E o \in Slots : ExchangeOk(o)
    \/ \E o \in Slots : ExchangeFail(o)
    \/ \E o \in Slots : SaveOk(o)
    \/ \E o \in Slots : SaveFail(o)

\* getValidAccessToken's refresh, as the user-facing operations run it
UserRefresh ==
    \/ \E o \in Slots : RefreshOk(o)
    \/ \E o \in Slots : RefreshFail(o)
    \/ \E o \in Slots : FetchFail(o)

\* the on-demand strategy
OnDemand ==
    \/ \E o \in Slots, u \in Athletes, options \in CredOptions :
          FetchActivitiesOnDemand(o, u, options)
    \/ \E o \in Slots : OnDemandFetchOk(o)

\* the per-user sync into the event table
UserSync ==
    \/ \E o \in Slots, u \in Athletes : SyncActivitiesToEventTable(o, u)
    \/ \E o \in Slots : EnsureOk(o)
    \/ \E o \in Slots : EnsureFail(o)
    \/ \E o \in Slots : SyncFetchOk(o)
    \/ \E o \in Slots : Upsert(o)

\* the admin's force sync (its upserts are those of UserSync)
AdminSync ==
    \/ \E o \in Slots : ForceSyncAllUsers(o)
    \/ \E o \in Slots : ForceRegistrations(o)
    \/ \E o \in Slots : ForceProfile(o)
    \/ \E o \in Slots : ForceRefreshOk(o)
    \/ \E o \in Slots : ForceRefreshFail(o)
    \/ \E o \in Slots : ForceSave(o)
    \/ \E o \in Slots : ForceFetch(o)

\* the per-event table strategy: per-user sync and the admin's force sync
EventSync == UserSync \/ AdminSync

\* a deployment of the on-demand strategy
Next == Account \/ UserRefresh \/ OnDemand
Spec == Init /\ [][Next]_vars

\* the on-demand strategy in a browser whose sessionStorage keeps nothing:
\* getItem answers null and setItem throws, which setCachedActivities catches
OnDemandFetchOkNoCache(o) == OnDemandFetchOk(o) /\ sessionStorage' = EmptyMap
NextNoCache ==
    \/ Account
    \/ UserRefresh
    \/ \E o \in Slots, u \in Athletes, options \in CredOptions :
          FetchActivitiesOnDemand(o, u, options)
    \/ \E o \in Slots : OnDemandFetchOkNoCache(o)
SpecNoCache == Init /\ [][NextNoCache]_vars

\* the cache methods by themselves, for every query shape, with the clock at rest
CacheCalls(suffixes) ==
    \/ \E u \in Users, suffix \in suffixes : GetCached(u, suffix)
    \/ \E u \in Users, suffix \in suffixes : \E activities \in CacheLists(u) :
          SetCached(u, suffix, activities)
    \/ \E u \in Users : ClearCache(u)
NextClear == CacheCalls(CacheSuffixes)
SpecClear == Init /\ [][NextClear]_vars

\* the cache methods by themselves, for one query shape, at millisecond resolution
NextCache ==
    \/ TickFine
    \/ CacheCalls({queryCacheKey(NoOptions)})
SpecCache == Init /\ [][NextCache]_vars

\* a deployment of the per-event table strategy
NextSync == Account \/ UserRefresh \/ EventSync
SpecSync == Init /\ [][NextSync]_vars

\* ------------------------------------------------- two calls at the same time
\* the profiles row a completed OAuth grant at time 0 leaves for athlete u
LinkedRow(u) ==
    savedRow(NoCred, [access_token |-> 1, refresh_token |-> 1,
                      expires_at |-> 400, athlete |-> AthleteOf(u)])

\* two asynchronous calls in flight on one page
PairSlots == {1, 2}

\* the users in linked have linked Strava, the athlete's page has loaded the
\* profile, and the event ends as one of ends says
Linked(slots, linked, ends) ==
    /\ SiteInit
    /\ now = 0
    /\ ticks = 0
    /\ profiles = [u \in Accounts |-> IF u \in linked THEN LinkedRow(u) ELSE NoCred]
    /\ provider = [u \in Accounts |-> IF u \in linked
                                       THEN [gen |-> 1, refresh_token |-> 1]
                                       ELSE [gen |-> 0, refresh_token |-> NULL]]
    /\ pages = [u \in Accounts |-> IF u \in linked \cap Athletes
                                    THEN [loaded |-> TRUE, profile |-> LinkedRow(u)]
                                    ELSE [loaded |-> FALSE, profile |-> NoCred]]
    /\ ops = [o \in slots |-> IdleOp]
    /\ sessionStorage = EmptyMap
    /\ event \in {[NoEvent EXCEPT !.end_date = e] : e \in ends}
    /\ eventRows = {}
    /\ filledBy = EmptyMap
    /\ cacheCall = NoCacheCall

InitPair == Linked(PairSlots, Athletes, {NULL})

\* each of the two callers calls once
CallOnce(o, u, options) ==
    /\ ops[o].pc = "idle"
    /\ FetchActivitiesOnDemand(o, u, options)

\* the token endpoint rejects a refresh token it has replaced, and no other
RefreshRejected(o) ==
    /\ ops[o].refreshSent # provider[ops[o].user].refresh_token
    /\ RefreshFail(o)

\* both endpoints and the profiles update answer every well-formed request
NextPair ==
    \/ TickCoarse
    \/ \E u \in Athletes : LoadPage(u)
    \/ \E o \in PairSlots, u \in Athletes : CallOnce(o, u, NoOptions)
    \/ \E o \in PairSlots : RefreshOk(o)
    \/ \E o \in PairSlots : RefreshRejected(o)
    \/ \E o \in PairSlots : SaveOk(o)
    \/ \E o \in PairSlots : OnDemandFetchOk(o)
SpecPair == InitPair /\ [][NextPair]_vars

\* ------------------------------------------------- both strategies on one page
\* a linked athlete whose pages use the dashboard's on-demand fetch and the
\* event page's sync
InitBoth == Linked(Slots, Athletes, {NULL})
NextBoth ==
    \/ TickCoarse
    \/ \E u \in Athletes : LoadPage(u)
    \/ \E o \in Slots : SaveOk(o)
    \/ \E o \in Slots : SaveFail(o)
    \/ UserRefresh
    \/ \E o \in Slots, u \in Athletes :
          \E options \in {NoOptions, [NoOptions EXCEPT !.forceRefresh = TRUE]} :
              FetchActivitiesOnDemand(o, u, options)
    \/ \E o \in Slots : OnDemandFetchOk(o)
    \/ UserSync
SpecBoth == InitBoth /\ [][NextBoth]_vars

\* ------------------------------------------------- the event table in use
\* UserA and UserC have linked Strava, UserB has not; all three are paid
\* registrants of the event, which ends on its first day or has no end date;
\* UserA's event page stays open (no reload) while the admin page is used
InitTable == Linked(Slots, {UserA, UserC}, EventEnds)
NextTable ==
    \/ TickTable
    \/ \E o \in Slots : SaveOk(o)
    \/ \E o \in Slots : SaveFail(o)
    \/ UserRefresh
    \/ UserSync
    \/ AdminSync
SpecTable == InitTable /\ [][NextTable]_vars

\* the admin page by itself
NextForce ==
    \/ TickTable
    \/ AdminSync
    \/ \E o \in Slots : Upsert(o)
SpecForce == InitTable /\ [][NextForce]_vars

\* ------------------------------------------------- event activity tables
\* the remote procedure as any signed-in client may call it
\* (supabase.rpc('create_event_activity_table', {event_id}))
callCreate(event_id) ==
    LET r == create_event_activity_table(events, DOMAIN tables, event_id) IN
    /\ events' = r.events
    /\ tables' = [t \in r.tables |-> IF t \in DOMAIN tables THEN tables[t] ELSE {}]
    /\ provisionedAt' = IF r.updated THEN [provisionedAt EXCEPT ![event_id] = now]
                        ELSE provisionedAt

callDelete(event_id) ==
    LET r == delete_event_activity_table(events, DOMAIN tables, event_id) IN
    /\ events' = r.events
    /\ tables' = [t \in r.tables |-> tables[t]]
    /\ provisionedAt' = IF r.data THEN [provisionedAt EXCEPT ![event_id] = NULL]
                        ELSE provisionedAt

\* a client calls the provisioning procedure itself
RpcCreate(event_id) ==
    /\ callCreate(event_id)
    /\ UNCHANGED <<coreVars, board, norm, lateVars, eventsCache, adminEvents, auto>>

\* leaderboard page, initLeaderboard: the active events are fetched into eventsCache
InitLeaderboard ==
    /\ \E ok \in BOOLEAN :
        eventsCache' =
            IF ok
            THEN [e \in DOMAIN eventsCache \cup {x \in DOMAIN events : events[x].is_active}
                    |-> IF e \in DOMAIN events /\ events[e].is_active THEN events[e]
                        ELSE eventsCache[e]]
            ELSE eventsCache
    /\ UNCHANGED <<coreVars, board, norm, lateVars, events, tables, provisionedAt, adminEvents, auto>>

\* renderLeaderboard, up to the point where the table is read: an event
\* without a table gets one if the cached row says it has started
RenderLeaderboardEnsure(eventId) ==
    /\ eventId \in DOMAIN eventsCache
    /\ LET ev == eventsCache[eventId] IN
       IF ev.activity_table_name = NoTable \/ ~ev.activity_table_created
       THEN IF ev.start_date <= now
            THEN \E ok \in BOOLEAN :
                    IF ok
                    THEN /\ callCreate(eventId)
                         /\ eventsCache' =
                              [eventsCache EXCEPT ![eventId] =
                                  [ev EXCEPT !.activity_table_name =
                                                 create_event_activity_table(
                                                     events, DOMAIN tables, eventId).data,
                                             !.activity_table_created = TRUE]]
                    ELSE UNCHANGED <<events, tables, provisionedAt, eventsCache>>
            ELSE UNCHANGED <<events, tables, provisionedAt, eventsCache>>
       ELSE UNCHANGED <<events, tables, provisionedAt, eventsCache>>
    /\ UNCHANGED <<coreVars, board, norm, lateVars, adminEvents, auto>>

\* admin page, loadEvents and renderEvents: per event, which buttons its card has
LoadEvents ==
    /\ \E ok \in BOOLEAN :
        adminEvents' =
            IF ok
            THEN [e \in DOMAIN events |->
                    [hasTable |-> events[e].activity_table_created
                                  /\ events[e].activity_table_name # NoTable,
                     eventStarted |-> events[e].start_date <= now]]
            ELSE adminEvents
    /\ UNCHANGED <<coreVars, board, norm, lateVars, events, tables, provisionedAt, eventsCache, auto>>

\* admin page, the Create Table button of a card (then loadEvents again)
CreateTable(eventId) ==
    /\ eventId \in DOMAIN adminEvents
    /\ ~adminEvents[eventId].hasTable
    /\ adminEvents[eventId].eventStarted
    /\ \E ok \in BOOLEAN :
        IF ok
        THEN /\ callCreate(eventId)
             /\ adminEvents' =
                  [e \in DOMAIN events |->
                     [hasTable |-> e = eventId \/ (events[e].activity_table_created
                                                   /\ events[e].activity_table_name # NoTable),
                      eventStarted |-> events[e].start_date <= now]]
        ELSE UNCHANGED <<events, tables, provisionedAt, adminEvents>>
    /\ UNCHANGED <<coreVars, board, norm, lateVars, eventsCache, auto>>

\* admin page, Delete on a card, confirmed (then loadEvents again)
ConfirmDeleteTable(eventId) ==
    /\ eventId \in DOMAIN adminEvents
    /\ adminEvents[eventId].hasTable
    /\ \E ok \in BOOLEAN :
        IF ok
        THEN /\ callDelete(eventId)
             /\ adminEvents' =
                  [e \in DOMAIN events |->
                     [hasTable |-> e # eventId /\ events[e].activity_table_created
                                   /\ events[e].activity_table_name # NoTable,
                      eventStarted |-> events[e].start_date <= now]]
        ELSE UNCHANGED <<events, tables, provisionedAt, adminEvents>>
    /\ UNCHANGED <<coreVars, board, norm, lateVars, eventsCache, auto>>

\* ------------------------------------------------- autoSyncUserActivities
\* getUserActiveEventRegistrations(userEmail) at time t: the events of the
\* user's paid registrations that are active, have started and have not ended
RECURSIVE activeEventsFrom(_, _, _, _)
activeEventsFrom(regs, evs, userEmail, t) ==
    IF regs = <<>> THEN <<>>
    ELSE LET r == Head(regs)
             rest == activeEventsFrom(Tail(regs), evs, userEmail, t) IN
         IF /\ r.user_email = userEmail
            /\ r.payment_status = "paid"
            /\ r.event_id \in DOMAIN evs
            /\ evs[r.event_id].is_active
            /\ evs[r.event_id].start_date <= t
            /\ (~Truthy(evs[r.event_id].end_date) \/ evs[r.event_id].end_date >= t)
         THEN <<evs[r.event_id]>> \o rest
         ELSE rest

getUserActiveEventRegistrations(ok, userEmail, t) ==
    IF ok THEN activeEventsFrom(EventRegistrations, events, userEmail, t) ELSE <<>>

\* results.reduce((sum, r) => sum + (r.synced || 0), 0)
RECURSIVE totalSynced(_)
totalSynced(results) ==
    IF results = <<>> THEN 0
    ELSE OrZero(Head(results).synced) + totalSynced(Tail(results))

\* a loop that stops at the first event whose sync failed
autoNextStops(op, entry) ==
    LET results == Append(op.results, entry) IN
    IF op.idx = Len(op.activeEvents) \/ entry.error # NoError
    THEN [op EXCEPT !.pc = "done", !.results = results,
                    !.ret = [events |-> Len(op.activeEvents),
                             totalSynced |-> totalSynced(results),
                             detailed |-> TRUE, details |-> results]]
    ELSE [op EXCEPT !.pc = "ensure", !.idx = @ + 1, !.results = results]

\* the loop of autoSyncUserActivities after the entry for one event was pushed
autoNext(op, entry) ==
    LET results == Append(op.results, entry) IN
    IF op.idx = Len(op.activeEvents)
    THEN [op EXCEPT !.pc = "done", !.results = results,
                    !.ret = [events |-> Len(op.activeEvents),
                             totalSynced |-> totalSynced(results),
                             detailed |-> TRUE, details |-> results]]
    ELSE [op EXCEPT !.pc = "ensure", !.idx = @ + 1, !.results = results]

AutoSyncUserActivities(userEmail) ==
    /\ auto.pc \in {"idle", "done"}
    /\ \E ok \in BOOLEAN :
        LET activeEvents == getUserActiveEventRegistrations(ok, userEmail, now) IN
        auto' = IF Len(activeEvents) = 0
                THEN [IdleAuto EXCEPT !.pc = "done", !.user = userEmail,
                                      !.ret = [events |-> 0, totalSynced |-> 0,
                                               detailed |-> FALSE, details |-> <<>>]]
                ELSE [IdleAuto EXCEPT !.pc = "ensure", !.user = userEmail,
                                      !.activeEvents = activeEvents, !.idx = 1]
    /\ UNCHANGED <<coreVars, board, norm, lateVars, events, tables, provisionedAt, eventsCache, adminEvents>>

\* syncActivitiesToEventTable for the event the loop is at, up to
\* ensureEventTableExists
AutoEnsure ==
    /\ auto.pc = "ensure"
    /\ LET ev == auto.activeEvents[auto.idx] IN
       IF ev.activity_table_name = NoTable \/ ~ev.activity_table_created
       THEN \E ok \in BOOLEAN :
               IF ok
               THEN /\ callCreate(ev.id)
                    /\ auto' = [auto EXCEPT !.pc = "fetch",
                                   !.tableName = create_event_activity_table(
                                                     events, DOMAIN tables, ev.id).data]
               ELSE /\ auto' = autoNext(auto, [NoDetail EXCEPT !.eventName = ev.name,
                                                               !.error = "NoTable"])
                    /\ UNCHANGED <<events, tables, provisionedAt>>
       ELSE /\ auto' = [auto EXCEPT !.pc = "fetch", !.tableName = ev.activity_table_name]
            /\ UNCHANGED <<events, tables, provisionedAt>>
    /\ UNCHANGED <<coreVars, board, norm, lateVars, eventsCache, adminEvents>>

\* the rows a list of upserts leaves in a table, rejected being the positions
\* of the upserts the service refused
RECURSIVE upsertAll(_, _, _, _)
upsertAll(rows, activities, i, rejected) ==
    IF i > Len(activities) THEN rows
    ELSE upsertAll(IF i \in rejected THEN rows ELSE upsert(rows, activities[i]),
                   activities, i + 1, rejected)

\* syncActivitiesToEventTable from getValidAccessToken on: the token or the
\* fetch fails, or the fetched activities of the event's window are upserted
AutoSync ==
    /\ auto.pc = "fetch"
    /\ LET ev == auto.activeEvents[auto.idx] IN
       \E ok \in BOOLEAN, raw \in AutoAnswers :
       \E rejected \in SUBSET (1..Len(raw)), window \in {syncWindow(ev, now)} :
        LET valid == SelectSeq(raw, LAMBDA act : inWindow(act, window))
            activities == [i \in 1..Len(valid) |-> syncRow(valid[i], auto.user)]
            \* an upsert into a table that was dropped is refused
            refused == IF auto.tableName \in DOMAIN tables
                       THEN rejected \cap (1..Len(activities))
                       ELSE 1..Len(activities)
            entry == [NoDetail EXCEPT !.eventName = ev.name] IN
        IF ~ok
        THEN /\ auto' = autoNext(auto, [entry EXCEPT !.error = "Fetch"])
             /\ tables' = tables
        ELSE IF Len(raw) = 0
        THEN /\ auto' = autoNext(auto, [entry EXCEPT !.synced = 0, !.skipped = 0])
             /\ tables' = tables
        ELSE /\ auto' = autoNext(auto, [entry EXCEPT
                             !.synced = Len(activities) - Cardinality(refused),
                             !.skipped = Cardinality(refused),
                             !.tableName = auto.tableName])
             /\ tables' = IF auto.tableName \in DOMAIN tables
                          THEN [tables EXCEPT ![auto.tableName] =
                                   upsertAll(@, activities, 1, refused)]
                          ELSE tables
    /\ UNCHANGED <<coreVars, board, norm, lateVars, events, provisionedAt, eventsCache, adminEvents>>

\* ------------------------------------------------- specification: the event tables
Provisioning ==
    \/ \E e \in EventIds \cup {MissingEvent} : RpcCreate(e)
    \/ InitLeaderboard
    \/ \E e \in EventIds : RenderLeaderboardEnsure(e)
    \/ LoadEvents
    \/ \E e \in EventIds : CreateTable(e)
    \/ \E e \in EventIds : ConfirmDeleteTable(e)
\* the users whose dashboard runs the auto-sync
AutoUsers == {UserA}
AutoSyncing ==
    \/ \E u \in AutoUsers : AutoSyncUserActivities(u)
    \/ AutoEnsure
    \/ AutoSync
\* the leaderboard page, the admin page and the remote procedure
NextProvision == TickTable \/ Provisioning
SpecProvision == Init /\ [][NextProvision]_vars

\* ------------------------------------------------- specification: auto-sync
\* autoSyncUserActivities while tables are created and dropped
NextAuto ==
    \/ TickTable
    \/ \E e \in EventIds \cup {MissingEvent} : RpcCreate(e)
    \/ LoadEvents
    \/ \E e \in EventIds : ConfirmDeleteTable(e)
    \/ AutoSyncing
SpecAuto == Init /\ [][NextAuto]_vars

\* ------------------------------------------------- the leaderboards
\* the activities a leaderboard render may find (event table rows, stored
\* activities or fetched activities): category, distance in metres and the
\* local calendar day; "" is an absent category
Act(userEmail, type, distance, date) ==
    [user_email |-> userEmail, type |-> type, distance |-> distance, date |-> date]
ActivityPool ==
    <<Act(UserA, "run", 3000, 0), Act(UserA, "run", 2999, 1),
      Act(UserA, "Run", 5000, 0), Act(UserA, "cycling", 10000, 1),
      Act(UserA, "swimming", 499, 2), Act(UserB, "run", 4000, 0),
      Act(UserC, "walk", 3000, 0), Act(UserC, "cycling", 9999, 1),
      Act(UserC, "swimming", 500, 1), Act(UserC, "swim", 500, 2),
      Act(UserC, "yoga", 20000, 2), Act(UserC, "", NULL, 0),
      Act(UserC, "hiking", 7000, 1)>>
\* how many activities one render finds
MaxActs == 2
\* the values of the activity-type dropdown
ActivityFilters == {"all", "run", "Cycling"}

\* the lists of at most n activities taken from pool positions >= from, in
\* pool order
RECURSIVE activityLists(_, _)
activityLists(from, n) ==
    IF n = 0 \/ from > Len(ActivityPool) THEN {<<>>}
    ELSE activityLists(from + 1, n)
         \cup {<<ActivityPool[from]>> \o rest : rest \in activityLists(from + 1, n - 1)}

\* the profiles rows the renders read: names, and whether Strava is linked
ProfileRows(connected) ==
    <<[email |-> UserA, first_name |-> <<"a", "l">>, last_name |-> <<"x">>,
       strava_connected |-> UserA \in connected,
       strava_access_token |-> IF UserA \in connected THEN 1 ELSE NULL],
      [email |-> UserC, first_name |-> <<>>, last_name |-> <<>>,
       strava_connected |-> UserC \in connected,
       strava_access_token |-> IF UserC \in connected THEN 1 ELSE NULL],
      [email |-> UserB, first_name |-> <<" ">>, last_name |-> <<"b">>,
       strava_connected |-> UserB \in connected,
       strava_access_token |-> IF UserB \in connected THEN 1 ELSE NULL]>>
ConnectedSets == {{UserA, UserB, UserC}, {UserA, UserB}, {}}

\* select user_email from event_registrations where event_id = eventId and
\* payment_status = 'paid'
paidRegistrations(eventId) ==
    SelectSeq(EventRegistrations,
              LAMBDA r : r.event_id = eventId /\ r.payment_status = "paid")

\* [...new Set(registrations.map(r => r.user_email))]
RECURSIVE uniqueEmails(_, _)
uniqueEmails(registrations, seen) ==
    IF registrations = <<>> THEN <<>>
    ELSE IF Head(registrations).user_email \in seen
    THEN uniqueEmails(Tail(registrations), seen)
    ELSE <<Head(registrations).user_email>>
         \o uniqueEmails(Tail(registrations), seen \cup {Head(registrations).user_email})

\* email.split('@')[0]
RECURSIVE beforeAt(_)
beforeAt(email) ==
    IF email = <<>> \/ Head(email) = "@" THEN <<>>
    ELSE <<Head(email)>> \o beforeAt(Tail(email))

\* String.prototype.trim
RECURSIVE trim(_)
trim(s) ==
    IF s = <<>> THEN s
    ELSE IF s[1] = " " THEN trim(Tail(s))
    ELSE IF s[Len(s)] = " " THEN trim(SubSeq(s, 1, Len(s) - 1))
    ELSE s

\* displayName.charAt(0).toUpperCase() + displayName.slice(1)
capitalize(s) ==
    IF s = <<>> THEN s
    ELSE <<IF \E k \in 1..26 : LowerLetters[k] = s[1]
           THEN UpperLetters[CHOOSE k \in 1..26 : LowerLetters[k] = s[1]]
           ELSE s[1]>> \o Tail(s)

\* the profile with this e-mail in the answer of the profiles lookup
\* (profileMap[email]); fetched is <<>> when the lookup failed
hasProfile(fetched, email) == \E i \in 1..Len(fetched) : fetched[i].email = email
profileOf(fetched, email) ==
    fetched[CHOOSE i \in 1..Len(fetched) : fetched[i].email = email]

\* the display name of a leaderboard entry
displayName(fetched, email) ==
    IF hasProfile(fetched, email)
    THEN LET profile == profileOf(fetched, email)
             full == trim(profile.first_name \o <<" ">> \o profile.last_name) IN
         capitalize(IF full # <<>> THEN full ELSE beforeAt(email))
    ELSE beforeAt(email)

\* act.activity_type ? act.activity_type.toLowerCase() : 'unknown'
typeOf(act) == IF act.type = "" THEN "unknown" ELSE toLowerCase(act.type)

\* parseFloat(act.distance) || 0, act.distance || 0
distOf(act) == OrZero(act.distance)

\* an eligibility check whose thresholds are exclusive
isEligibleExclusive(type, dist) ==
    IF type \in {"walk", "run", "hiking"} THEN dist > 3000
    ELSE IF type = "cycling" THEN dist > 10000
    ELSE IF type \in {"swimming", "swim"} THEN dist > 500
    ELSE FALSE

\* the eligibility check of the event-table and on-demand leaderboards
isEligible(type, dist) ==
    IF type \in {"walk", "run", "hiking"} THEN dist >= 3000
    ELSE IF type = "cycling" THEN dist >= 10000
    ELSE IF type \in {"swimming", "swim"} THEN dist >= 500
    ELSE FALSE

\* the eligibility check of the leaderboard over stored activities
isEligibleStored(type, dist) ==
    IF type \in {"walk", "run", "hiking"} THEN dist >= 3000
    ELSE IF type = "cycling" THEN dist >= 10000
    ELSE IF type = "swimming" THEN dist >= 500
    ELSE FALSE

\* activityFilter === 'all' || type === activityFilter.toLowerCase()
matchesFilter(type, activityFilter) ==
    activityFilter = "all" \/ type = toLowerCase(activityFilter)

\* userMap[email] before any activity is counted
newStats(fetched, email) ==
    [name |-> displayName(fetched, email), email |-> email, totalDays |-> {},
     eligibleActivities |-> 0, totalActivities |-> 0,
     eligibleDistance |-> 0, totalDistance |-> 0]

\* a day set that takes a day once per activity
addDayPerActivity(totalDays, act) == totalDays \cup {<<act.date, act.distance>>}

\* totalDays.add(activityDate)
addDay(totalDays, act) == totalDays \cup {act.date}

\* userStats.totalActivities++; userStats.totalDistance += dist
countAll(userStats, act, activityFilter) ==
    [userStats EXCEPT !.totalActivities = @ + 1, !.totalDistance = @ + distOf(act)]

\* one activity counted into its user's stats, event-table and on-demand
\* leaderboards
countActivity(userStats, act, activityFilter) ==
    LET type == typeOf(act)
        dist == distOf(act)
        counted == countAll(userStats, act, activityFilter) IN
    IF matchesFilter(type, activityFilter) /\ isEligible(type, dist)
    THEN [counted EXCEPT !.totalDays = addDay(@, act),
                         !.eligibleActivities = @ + 1,
                         !.eligibleDistance = @ + dist]
    ELSE counted

\* one activity counted into its user's stats, leaderboard over stored
\* activities
countStoredActivity(userStats, act, activityFilter) ==
    LET type == typeOf(act)
        dist == distOf(act) IN
    IF matchesFilter(type, activityFilter)
    THEN [userStats EXCEPT
             !.totalDays = IF isEligibleStored(type, dist) THEN addDay(@, act) ELSE @,
             !.totalActivities = @ + 1,
             !.totalDistance = @ + dist]
    ELSE userStats

\* activities.forEach over userMap (an activity of a user without an entry is
\* passed over)
RECURSIVE aggregate(_, _, _, _)
aggregate(userMap, activities, activityFilter, stored) ==
    IF activities = <<>> THEN userMap
    ELSE LET act == Head(activities)
             next == IF act.user_email \in DOMAIN userMap
                     THEN [userMap EXCEPT ![act.user_email] =
                              IF stored THEN countStoredActivity(@, act, activityFilter)
                              ELSE countActivity(@, act, activityFilter)]
                     ELSE userMap IN
         aggregate(next, Tail(activities), activityFilter, stored)

\* a comparator that looks at the day count only
byDaysOnly(a, b, stored) ==
    Cardinality(b.totalDays) - Cardinality(a.totalDays)

\* the comparator of the sort: negative when a goes before b
byDaysThenDistance(a, b, stored) ==
    IF Cardinality(b.totalDays) # Cardinality(a.totalDays)
    THEN Cardinality(b.totalDays) - Cardinality(a.totalDays)
    ELSE IF stored THEN b.totalDistance - a.totalDistance
    ELSE b.eligibleDistance - a.eligibleDistance

\* Array.prototype.sort (stable) with the comparator, as an insertion sort
RECURSIVE insertSorted(_, _, _)
insertSorted(sorted, u, stored) ==
    IF sorted = <<>> THEN <<u>>
    ELSE IF byDaysThenDistance(Head(sorted), u, stored) > 0
    THEN <<u>> \o sorted
    ELSE <<Head(sorted)>> \o insertSorted(Tail(sorted), u, stored)

RECURSIVE sortUsers(_, _, _)
sortUsers(users, done, stored) ==
    IF users = <<>> THEN done
    ELSE sortUsers(Tail(users), insertSorted(done, Head(users), stored), stored)

\* Object.values(userMap).sort(...): userMap holds the e-mails of keys in
\* insertion order
sortedUsers(keys, userMap, stored) ==
    sortUsers([i \in 1..Len(keys) |-> userMap[keys[i]]], <<>>, stored)

\* the e-mails of the profiles that count as linked (activeUserEmails)
activeUserEmails(fetched, needsToken) ==
    LET linked == SelectSeq(fetched,
                     LAMBDA p : p.strava_connected
                                /\ (~needsToken \/ Truthy(p.strava_access_token))) IN
    [i \in 1..Len(linked) |-> linked[i].email]

\* the answer of a profiles lookup for the given e-mails
lookupProfiles(ok, connected, emails) ==
    IF ok
    THEN SelectSeq(ProfileRows(connected),
                   LAMBDA p : \E i \in 1..Len(emails) : emails[i] = p.email)
    ELSE <<>>

\* what a render leaves on the page: the table rows, or a message
Rendered(variant, in, users) ==
    [in EXCEPT !.pc = "rendered", !.variant = variant, !.shown = "table", !.users = users]
Message(variant, in, text) ==
    [in EXCEPT !.pc = "rendered", !.variant = variant, !.shown = text, !.users = <<>>]

\* renderLeaderboard of the event-table leaderboard, from the registrations on
renderEventTable(in) ==
    LET userEmails == uniqueEmails(paidRegistrations(in.eventId), {})
        fetched == lookupProfiles(in.profilesOk, in.connected, userEmails)
        userMap == [email \in {userEmails[i] : i \in 1..Len(userEmails)} |->
                       newStats(fetched, email)]
        counted == aggregate(userMap, in.activities, in.activityFilter, FALSE) IN
    IF Len(userEmails) = 0 THEN Message("table", in, "No paid participants yet.")
    ELSE Rendered("table", in, sortedUsers(userEmails, counted, FALSE))

\* renderLeaderboard of the on-demand leaderboard: the activities are those
\* getActivitiesInRange returned for the linked participants
renderOnDemand(in) ==
    LET userEmails == uniqueEmails(paidRegistrations(in.eventId), {})
        fetched == lookupProfiles(in.profilesOk, in.connected, userEmails)
        active == activeUserEmails(fetched, TRUE)
        userMap == [email \in {active[i] : i \in 1..Len(active)} |->
                       newStats(fetched, email)]
        counted == aggregate(userMap, in.activities, in.activityFilter, FALSE) IN
    IF Len(userEmails) = 0 THEN Message("onDemand", in, "No paid participants yet.")
    ELSE IF Len(active) = 0
    THEN Message("onDemand", in,
                 "No participants have connected their Strava account yet.")
    ELSE Rendered("onDemand", in, sortedUsers(active, counted, FALSE))

\* renderLeaderboard of the leaderboard over stored activities
renderStored(in) ==
    LET userEmails == uniqueEmails(paidRegistrations(in.eventId), {})
        fetched == lookupProfiles(in.profilesOk, in.connected, userEmails)
        active == activeUserEmails(fetched, FALSE)
        userMap == [email \in {active[i] : i \in 1..Len(active)} |->
                       newStats(fetched, email)]
        found == SelectSeq(in.activities,
                           LAMBDA act : \E i \in 1..Len(active) : active[i] = act.user_email)
        counted == aggregate(userMap, found, in.activityFilter, TRUE) IN
    IF Len(userEmails) = 0 THEN Message("stored", in, "No paid participants yet.")
    ELSE IF Len(active) = 0
    THEN Message("stored", in,
                 "No participants have synced their Strava account yet.")
    ELSE Rendered("stored", in, sortedUsers(active, counted, TRUE))

RenderEventTable ==
    /\ board' = renderEventTable(board)
    /\ UNCHANGED <<coreVars, tableVars, norm, lateVars>>

RenderOnDemand ==
    /\ board' = renderOnDemand(board)
    /\ UNCHANGED <<coreVars, tableVars, norm, lateVars>>

RenderStored ==
    /\ board' = renderStored(board)
    /\ UNCHANGED <<coreVars, tableVars, norm, lateVars>>

\* the page before a render, for every event, filter, list of activities and
\* answer of the profiles lookup
BoardInputs ==
    [pc : {"input"}, variant : {"none"}, eventId : EventIds,
     activityFilter : ActivityFilters, activities : activityLists(1, MaxActs),
     profilesOk : BOOLEAN, connected : ConnectedSets,
     shown : {"none"}, users : {<<>>}]

InitBoard ==
    /\ CoreInit
    /\ TableInit
    /\ norm = NoNorm
    /\ LateInit
    /\ board \in BoardInputs

NextBoard == RenderEventTable \/ RenderOnDemand \/ RenderStored
SpecBoard == InitBoard /\ [][NextBoard]_vars

\* ------------------------------------------------- transformActivities
\* the categories the activities endpoint may send, and one it does not list
RawTypes ==
    {"Ride", "VirtualRide", "E-BikeRide", "Run", "VirtualRun", "Walk", "Hike", "Swim",
     "Yoga", "EBikeRide", "Crossfit", "constructor"}
\* raw activities of every category, and one without a type property
RawTyped == {[id |-> 1, type |-> t] : t \in RawTypes} \cup {[id |-> 1]}
\* how many raw activities one call of transformActivities gets
MaxRaw == 2
RawLists == UNION {[1..n -> RawTyped] : n \in 0..MaxRaw}

\* transformActivities(norm.activities, UserA): undefined.toLowerCase() throws
\* a TypeError for an activity without a type
TransformActivities ==
    /\ norm' = IF \E i \in 1..Len(norm.activities) : "type" \notin DOMAIN norm.activities[i]
               THEN [norm EXCEPT !.pc = "done", !.threw = TRUE, !.out = <<>>]
               ELSE [norm EXCEPT !.pc = "done", !.threw = FALSE,
                                 !.out = transformActivities(norm.activities, UserA)]
    /\ UNCHANGED <<coreVars, tableVars, board, lateVars>>

InitNormalize ==
    /\ CoreInit
    /\ TableInit
    /\ board = NoBoard
    /\ LateInit
    /\ norm \in [pc : {"idle"}, activities : RawLists, threw : {FALSE}, out : {<<>>}]

NextNormalize == TransformActivities
SpecNormalize == InitNormalize /\ [][NextNormalize]_vars

\* ------------------------------------------------- the day-bound helpers
\* bare dates of the first days of 1970, in both spellings, each with its
\* number of days since 1970-01-01
BareDates ==
    {[text |-> <<"1", "9", "7", "0", "-", "0", "1", "-", "0", "1">>, day |-> 0],
     [text |-> <<"1", "9", "7", "0", "-", "0", "1", "-", "0", "2">>, day |-> 1],
     [text |-> <<"1", "9", "7", "0", "/", "0", "1", "/", "0", "3">>, day |-> 2],
     [text |-> <<"1", "9", "7", "0", "-", "0", "1", "-", "1", "0">>, day |-> 9],
     [text |-> <<"1", "9", "7", "0", "/", "0", "1", "/", "2", "0">>, day |-> 19]}
\* date-time texts: as toISOString writes them, as the database client
\* returns a TIMESTAMP WITH TIME ZONE, and without a zone (local time)
DateTimeTexts ==
    {<<"1", "9", "7", "0", "-", "0", "1", "-", "0", "2", "T", "1", "0", ":", "0", "0", ":", "0", "0", ".", "0", "0", "0", "Z">>,
     <<"1", "9", "7", "0", "-", "0", "1", "-", "0", "1", "T", "2", "0", ":", "0", "0", ":", "0", "0", "+", "0", "0", ":", "0", "0">>,
     <<"1", "9", "7", "0", "-", "0", "1", "-", "0", "3", "T", "2", "3", ":", "3", "0", ":", "0", "0">>}
\* texts that denote no date: words, with and without a 'T', a date with a
\* part that is no number, a date of two parts, a date-time with a month 13
UnparseableTexts ==
    {<<"a", "b", "c">>, <<"T", "B", "D">>, <<"1", "9", "7", "0", "-", "x", "x", "-", "0", "1">>, <<"1", "9", "7", "0", "-", "0", "1">>,
     <<"1", "9", "7", "0", "-", "1", "3", "-", "0", "1", "T", "0", "0", ":", "0", "0", ":", "0", "0", "Z">>}
\* a date whose month 00 the Date constructor carries over to December 1969
CarriedOverTexts == {<<"1", "9", "7", "0", "-", "0", "0", "-", "1", "0">>}
\* what a caller may hand to the helpers
DateInputs ==
    {JSNull, JSUndefined, Str(<<>>)}
    \cup {Str(d.text) : d \in BareDates}
    \cup {Str(x) : x \in DateTimeTexts \cup UnparseableTexts \cup CarriedOverTexts}

\* getStartOfDayUTC(d), getEndOfDayUTC(d), getStartOfDay(d), getEndOfDay(d)
\* called at the current instant
ApplyDateHelpers ==
    /\ dates.pc = "input"
    /\ dates' = [dates EXCEPT !.pc = "done", !.at = now,
                              !.startUTC = getStartOfDayUTC(dates.input),
                              !.endUTC = getEndOfDayUTC(dates.input, now),
                              !.start = getStartOfDay(dates.input),
                              !.end = getEndOfDay(dates.input, now)]
    /\ UNCHANGED <<coreVars, tableVars, board, norm, range, view, typed, dash>>

InitDates ==
    /\ CoreInit
    /\ TableInit
    /\ board = NoBoard
    /\ norm = NoNorm
    /\ range = NoRange /\ view = NoView /\ typed = NoTyped /\ dash = NoDash
    /\ dates \in [pc : {"input"}, input : DateInputs, at : {0}, startUTC : {NULL},
                  endUTC : {NULL}, start : {NULL}, end : {NULL}]

NextDates == TickCoarse \/ ApplyDateHelpers
SpecDates == InitDates /\ [][NextDates]_vars

\* ------------------------------------------------- fetching by date range
\* raw activities of 2 January 1970 and after, with the UTC start and the
\* athlete's wall-clock start as the activities endpoint writes them
\* an evening run of an athlete at UTC+05:30
RawEvening == [id |-> 11, type |-> "Run", distance |-> 5000,
               start_date |-> <<"1", "9", "7", "0", "-", "0", "1", "-", "0", "2", "T", "1", "4", ":", "3", "0", ":", "0", "0", "Z">>,
               start_date_local |-> <<"1", "9", "7", "0", "-", "0", "1", "-", "0", "2", "T", "2", "0", ":", "0", "0", ":", "0", "0", "Z">>]
\* a midday ride of an athlete at UTC-08:00
RawMidday == [id |-> 12, type |-> "Ride", distance |-> 20000,
              start_date |-> <<"1", "9", "7", "0", "-", "0", "1", "-", "0", "2", "T", "2", "0", ":", "0", "0", ":", "0", "0", "Z">>,
              start_date_local |-> <<"1", "9", "7", "0", "-", "0", "1", "-", "0", "2", "T", "1", "2", ":", "0", "0", ":", "0", "0", "Z">>]
\* a morning run of an athlete at UTC+05:30
RawMorning == [id |-> 13, type |-> "Run", distance |-> 4000,
               start_date |-> <<"1", "9", "7", "0", "-", "0", "1", "-", "0", "2", "T", "0", "5", ":", "0", "0", ":", "0", "0", "Z">>,
               start_date_local |-> <<"1", "9", "7", "0", "-", "0", "1", "-", "0", "2", "T", "1", "0", ":", "3", "0", ":", "0", "0", "Z">>]
\* a walk two days later, of an athlete at UTC
RawLater == [id |-> 14, type |-> "Walk", distance |-> 6000,
             start_date |-> <<"1", "9", "7", "0", "-", "0", "1", "-", "0", "4", "T", "0", "0", ":", "0", "0", ":", "0", "0", "Z">>,
             start_date_local |-> <<"1", "9", "7", "0", "-", "0", "1", "-", "0", "4", "T", "0", "0", ":", "0", "0", ":", "0", "0", "Z">>]
\* a forenoon run and, the next day, a morning walk of an athlete at UTC-08:00
RawForenoon == [id |-> 15, type |-> "Run", distance |-> 5000,
                start_date |-> <<"1", "9", "7", "0", "-", "0", "1", "-", "0", "1", "T", "1", "9", ":", "0", "0", ":", "0", "0", "Z">>,
                start_date_local |-> <<"1", "9", "7", "0", "-", "0", "1", "-", "0", "1", "T", "1", "1", ":", "0", "0", ":", "0", "0", "Z">>]
RawNextDay == [id |-> 16, type |-> "Walk", distance |-> 3000,
               start_date |-> <<"1", "9", "7", "0", "-", "0", "1", "-", "0", "2", "T", "1", "7", ":", "0", "0", ":", "0", "0", "Z">>,
               start_date_local |-> <<"1", "9", "7", "0", "-", "0", "1", "-", "0", "2", "T", "0", "9", ":", "0", "0", ":", "0", "0", "Z">>]
\* what the activities endpoint may answer
RangeAnswers ==
    {<<>>, <<RawEvening, RawMorning>>, <<RawMidday, RawLater>>, <<RawMorning>>,
     <<RawForenoon, RawNextDay>>}
\* the dates a caller may pass
RangeStarts == {Str(<<"1", "9", "7", "0", "-", "0", "1", "-", "0", "2">>), Str(<<"a", "b", "c">>), Str(<<>>), JSNull}
RangeEnds == {Str(<<"1", "9", "7", "0", "-", "0", "1", "-", "0", "2">>), Str(<<"a", "b", "c">>), JSNull}
RangeCallers == {"getActivitiesInRange", "syncActivitiesToEventTable", "forceSyncAllUsers"}

\* new Date(act.start_date).getTime() of the text in start_date
getTime(text) == DateParse(text)
\* actTs >= startTs && actTs <= endTs (false for NaN)
inRange(text, startTs, endTs) ==
    ~isNaN(getTime(text)) /\ getTime(text)[1] >= startTs /\ getTime(text)[1] <= endTs
\* !startObj where the mutated code never skips
startMissingNever(startObj) == FALSE
\* !startObj (a Date object is truthy)
startMissing(startObj) == startObj = NULL
\* Math.floor(obj.getTime() / 1000) for both bounds
rangeQuery(startObj, endObj) == [after |-> startObj \div 1000, before |-> endObj \div 1000]
\* the call returns or throws
rangeDone(r, threw, ret) == [r EXCEPT !.pc = "done", !.threw = threw, !.ret = ret]

\* StravaAPI.getActivitiesInRange up to its await of fetchActivitiesOnDemand
\* (endObj.getTime() throws a TypeError for a null endObj)
GetActivitiesInRange ==
    /\ range.pc = "input"
    /\ range.caller = "getActivitiesInRange"
    /\ LET startObj == getStartOfDayUTC(range.startDate)
           endObj == getEndOfDayUTC(range.endDate, now)
           called == [range EXCEPT !.at = now, !.startTs = startObj, !.endTs = endObj] IN
       range' = IF startMissing(startObj) THEN rangeDone(called, FALSE, <<>>)
                ELSE IF endObj = NULL THEN rangeDone(called, TRUE, <<>>)
                ELSE [called EXCEPT !.pc = "awaitFetch",
                                    !.requests = Append(@, rangeQuery(startObj, endObj))]
    /\ UNCHANGED <<coreVars, tableVars, board, norm, dates, view, typed, dash>>

\* fetchActivitiesOnDemand returned the transformed activities of the
\* endpoint's answer (fresh or from the cache) or threw; the filter reads the
\* transformed start_date
RangeFiltered ==
    /\ range.pc = "awaitFetch"
    /\ range.caller = "getActivitiesInRange"
    /\ \E raw \in RangeAnswers, ok \in BOOLEAN :
        LET activities == transformActivities(raw, UserA) IN
        range' = IF ~ok THEN rangeDone(range, TRUE, <<>>)
                 ELSE rangeDone([range EXCEPT !.fetched = raw], FALSE,
                        SelectSeq(activities,
                            LAMBDA act : inRange(act.start_date, range.startTs, range.endTs)))
    /\ UNCHANGED <<coreVars, tableVars, board, norm, dates, view, typed, dash>>

\* activity_date: act.start_date_local.substring(0, 10)
dated(act) == [act EXCEPT !.start_date_local = SubSeq(@, 1, 10)]
\* the upsert loop over the rows, each accepted (ok) or rejected
upsertRows(rows, new, ok) == IF ok THEN upsertAll(rows, new, 1, {}) ELSE rows

\* syncActivitiesToEventTable for an event that has its table, up to its
\* await of getValidAccessToken: event.start_date.substring throws for a
\* null start_date, startObj.getTime() and endObj.getTime() for a null Date
SyncByDates ==
    /\ range.pc = "input"
    /\ range.caller = "syncActivitiesToEventTable"
    /\ LET startObj == getStartOfDayUTC(range.startDate)
           endObj == getEndOfDayUTC(IF Falsy(range.endDate) THEN Str(toISOString(now))
                                    ELSE range.endDate, now)
           called == [range EXCEPT !.at = now, !.startTs = startObj, !.endTs = endObj] IN
       range' = IF range.startDate.kind # "string" \/ startObj = NULL \/ endObj = NULL
                THEN rangeDone(called, TRUE, <<>>)
                ELSE [called EXCEPT !.pc = "awaitToken"]
    /\ UNCHANGED <<coreVars, tableVars, board, norm, dates, view, typed, dash>>

\* getValidAccessToken returned a token, and fetchActivities sends the
\* request with after and before, or it threw
SyncToken ==
    /\ range.pc = "awaitToken"
    /\ \E ok \in BOOLEAN :
        range' = IF ok
                 THEN [range EXCEPT !.pc = "awaitFetch",
                         !.requests = Append(@, rangeQuery(range.startTs, range.endTs))]
                 ELSE rangeDone(range, TRUE, <<>>)
    /\ UNCHANGED <<coreVars, tableVars, board, norm, dates, view, typed, dash>>

\* fetchActivities returned or threw; the activities inside the window are
\* upserted
SyncFiltered ==
    /\ range.pc = "awaitFetch"
    /\ range.caller = "syncActivitiesToEventTable"
    /\ \E raw \in RangeAnswers, ok \in BOOLEAN, saved \in BOOLEAN :
        LET valid == SelectSeq(raw,
                        LAMBDA act : inRange(act.start_date, range.startTs, range.endTs))
            new == [i \in 1..Len(valid) |-> syncRow(dated(valid[i]), UserA)] IN
        range' = IF ~ok THEN rangeDone(range, TRUE, <<>>)
                 ELSE rangeDone([range EXCEPT !.fetched = raw,
                                              !.rows = upsertRows(@, new, saved)],
                                FALSE, <<>>)
    /\ UNCHANGED <<coreVars, tableVars, board, norm, dates, view, typed, dash>>

\* the admin page's fetchStravaActivities(accessToken, startDate, endDate) up
\* to its await of fetch, for one registrant of forceSyncAllUsers
FetchStravaActivities ==
    /\ range.pc = "input"
    /\ range.caller = "forceSyncAllUsers"
    /\ LET startDateObj == getStartOfDay(range.startDate)
           endDateObj == getEndOfDay(range.endDate, now)
           called == [range EXCEPT !.at = now, !.startTs = startDateObj,
                                   !.endTs = endDateObj] IN
       range' = IF startMissing(startDateObj) THEN rangeDone(called, FALSE, <<>>)
                ELSE [called EXCEPT !.pc = "awaitFetch",
                        !.requests = Append(@, rangeQuery(startDateObj, endDateObj))]
    /\ UNCHANGED <<coreVars, tableVars, board, norm, dates, view, typed, dash>>

\* fetch returned: fetchStravaActivities gives the activities, or [] for a
\* failure; for a non-empty list saveActivitiesToEventTable filters by the
\* bounds it computes anew and upserts
SaveActivitiesToEventTable ==
    /\ range.pc = "awaitFetch"
    /\ range.caller = "forceSyncAllUsers"
    /\ \E raw \in RangeAnswers, ok \in BOOLEAN, saved \in BOOLEAN :
        LET activities == fetchStravaActivities(raw, ok)
            startTs == getStartOfDay(range.startDate)
            endTs == getEndOfDay(range.endDate, now)
            valid == SelectSeq(activities,
                        LAMBDA act : inRange(act.start_date, startTs, endTs))
            new == [i \in 1..Len(valid) |-> adminRow(dated(valid[i]), UserA)] IN
        range' = IF Len(activities) = 0 THEN rangeDone(range, FALSE, <<>>)
                 ELSE IF startTs = NULL THEN rangeDone(range, TRUE, <<>>)
                 ELSE rangeDone([range EXCEPT !.fetched = raw,
                                              !.rows = upsertRows(@, new, saved)],
                                FALSE, <<>>)
    /\ UNCHANGED <<coreVars, tableVars, board, norm, dates, view, typed, dash>>

InitRange ==
    /\ CoreInit
    /\ TableInit
    /\ board = NoBoard
    /\ norm = NoNorm
    /\ dates = NoDates /\ view = NoView /\ typed = NoTyped /\ dash = NoDash
    /\ range \in [pc : {"input"}, caller : RangeCallers, startDate : RangeStarts,
                  endDate : RangeEnds, at : {0}, startTs : {NULL}, endTs : {NULL},
                  requests : {<<>>}, fetched : {<<>>}, rows : {{}}, threw : {FALSE},
                  ret : {<<>>}]

NextRange ==
    \/ TickCoarse
    \/ GetActivitiesInRange \/ RangeFiltered
    \/ SyncByDates \/ SyncToken \/ SyncFiltered
    \/ FetchStravaActivities \/ SaveActivitiesToEventTable
SpecRange == InitRange /\ [][NextRange]_vars

\* ------------------------------------- the leaderboard page, renders overlapping
\* how many calls of renderLeaderboard wait on I/O at once, and how often the
\* visitor changes a dropdown
RenderSlots == {1, 2}
MaxChanges == 2

\* what the event's activity table holds when a render selects from it
TableRowsOf(eventId) ==
    IF eventId = 1 THEN <<ActivityPool[1], ActivityPool[4], ActivityPool[7]>>
    ELSE IF eventId = 2 THEN <<ActivityPool[3]>>
    ELSE <<ActivityPool[13]>>

\* what leaderboardBody shows: a message or the rows
Body(b) == [shown |-> b.shown, users |-> b.users]
Loading == [shown |-> "Loading leaderboard...", users |-> <<>>]
ErrorLoading == [shown |-> "Error loading leaderboard", users |-> <<>>]

\* the rows renderLeaderboard writes for an event and a filter, given the
\* answer of the profiles lookup
leaderboardOf(eventId, activityFilter, profilesOk) ==
    Body(renderEventTable([NoBoard EXCEPT !.eventId = eventId,
                                          !.activityFilter = activityFilter,
                                          !.activities = TableRowsOf(eventId),
                                          !.profilesOk = profilesOk,
                                          !.connected = {UserA, UserB, UserC}]))

\* renderLeaderboard up to its first await: the dropdowns are read, the spinner
\* is shown and the registrations are requested (the cached event has a table)
startRender(v, slot) ==
    [v EXCEPT !.renders[slot] = [pc |-> "registrations", eventId |-> v.eventId,
                                 activityFilter |-> v.activityFilter,
                                 profilesOk |-> TRUE],
              !.body = Loading]

freeSlot(v) == CHOOSE s \in RenderSlots : v.renders[s].pc = "idle"
hasFreeSlot(v) == \E s \in RenderSlots : v.renders[s].pc = "idle"

\* initLeaderboard: the options are filled, the first is selected and rendered
InitLeaderboardView ==
    /\ view.eventId = NULL
    /\ \E ok \in BOOLEAN :
        view' = IF ok THEN startRender([view EXCEPT !.eventId = 1], 1)
                ELSE [view EXCEPT !.body = [shown |-> "Error loading events.",
                                            users |-> <<>>]]
    /\ UNCHANGED <<coreVars, tableVars, board, norm, dates, range, typed, dash>>

\* the change listener of the event dropdown
ChangeEvent(eventId) ==
    /\ view.eventId # NULL
    /\ eventId # view.eventId
    /\ view.changes < MaxChanges
    /\ hasFreeSlot(view)
    /\ view' = startRender([view EXCEPT !.eventId = eventId, !.changes = @ + 1],
                           freeSlot(view))
    /\ UNCHANGED <<coreVars, tableVars, board, norm, dates, range, typed, dash>>

\* the change listener of the activity-type dropdown
ChangeFilter(activityFilter) ==
    /\ view.eventId # NULL
    /\ activityFilter # view.activityFilter
    /\ view.changes < MaxChanges
    /\ hasFreeSlot(view)
    /\ view' = startRender([view EXCEPT !.activityFilter = activityFilter,
                                        !.changes = @ + 1],
                           freeSlot(view))
    /\ UNCHANGED <<coreVars, tableVars, board, norm, dates, range, typed, dash>>

\* the registrations arrive: an error is shown, or no participants, or the
\* profiles are requested
RegistrationsAnswer(slot) ==
    /\ view.renders[slot].pc = "registrations"
    /\ LET r == view.renders[slot] IN
       \E ok \in BOOLEAN :
        view' = IF ~ok
                THEN [view EXCEPT !.renders[slot].pc = "idle", !.body = ErrorLoading,
                                  !.written = TRUE]
                ELSE IF Len(paidRegistrations(r.eventId)) = 0
                THEN [view EXCEPT !.renders[slot].pc = "idle",
                                  !.body = leaderboardOf(r.eventId, r.activityFilter, TRUE),
                                  !.written = TRUE]
                ELSE [view EXCEPT !.renders[slot].pc = "profiles"]
    /\ UNCHANGED <<coreVars, tableVars, board, norm, dates, range, typed, dash>>

\* get_leaderboard_profiles answers (an error is logged only), the rows of the
\* event's table are requested
ProfilesAnswer(slot) ==
    /\ view.renders[slot].pc = "profiles"
    /\ \E ok \in BOOLEAN :
        view' = [view EXCEPT !.renders[slot].pc = "activities",
                             !.renders[slot].profilesOk = ok]
    /\ UNCHANGED <<coreVars, tableVars, board, norm, dates, range, typed, dash>>

\* the rows arrive: the leaderboard of the values read at the start is written
ActivitiesAnswer(slot) ==
    /\ view.renders[slot].pc = "activities"
    /\ LET r == view.renders[slot] IN
       \E ok \in BOOLEAN :
        view' = [view EXCEPT !.renders[slot].pc = "idle",
                             !.body = IF ok
                                      THEN leaderboardOf(r.eventId, r.activityFilter,
                                                         r.profilesOk)
                                      ELSE ErrorLoading,
                             !.written = TRUE]
    /\ UNCHANGED <<coreVars, tableVars, board, norm, dates, range, typed, dash>>

InitView ==
    /\ CoreInit
    /\ TableInit
    /\ board = NoBoard
    /\ norm = NoNorm
    /\ LateInit

NextView ==
    \/ InitLeaderboardView
    \/ \E eventId \in EventIds : ChangeEvent(eventId)
    \/ \E activityFilter \in ActivityFilters : ChangeFilter(activityFilter)
    \/ \E slot \in RenderSlots :
          RegistrationsAnswer(slot) \/ ProfilesAnswer(slot) \/ ActivitiesAnswer(slot)
SpecView == InitView /\ [][NextView]_vars

\* ------------------------------------- one activity, written by both syncs
\* how often the activity is synced again
MaxWrites == 3
\* the activity as the activities endpoint sends it, in every category and
\* around the distance thresholds
TypedActivities ==
    {[id |-> 21, type |-> t, start_date_local |-> 0, distance |-> d] :
        t \in RawTypes, d \in {2999, 3000, 10000}}

\* the leaderboard's eligibility decision on a stored row
rowEligible(row) ==
    isEligible(IF row.activity_type = "" THEN "unknown"
               ELSE toLowerCase(row.activity_type),
               row.distance)

\* upsert with onConflict: 'strava_id': the row of this activity is replaced
storeRow(t, row, by) ==
    [t EXCEPT !.pc = "stored", !.row = row, !.by = by, !.writes = @ + 1,
              !.first = IF t.pc = "stored" THEN @ ELSE row]

\* syncActivitiesToEventTable writes the activity's row
SyncWritesRow ==
    /\ typed.pc \in {"input", "stored"}
    /\ typed.writes < MaxWrites
    /\ typed' = storeRow(typed, syncRow(typed.act, UserA), "sync")
    /\ UNCHANGED <<coreVars, tableVars, board, norm, dates, range, view, dash>>

\* the admin page's saveActivitiesToEventTable writes the activity's row
ForceSyncWritesRow ==
    /\ typed.pc \in {"input", "stored"}
    /\ typed.writes < MaxWrites
    /\ typed' = storeRow(typed, adminRow(typed.act, UserA), "force")
    /\ UNCHANGED <<coreVars, tableVars, board, norm, dates, range, view, dash>>

InitTyped ==
    /\ CoreInit
    /\ TableInit
    /\ board = NoBoard
    /\ norm = NoNorm
    /\ dates = NoDates
    /\ range = NoRange
    /\ view = NoView
    /\ dash = NoDash
    /\ typed \in {[NoTyped EXCEPT !.pc = "input", !.act = a] : a \in TypedActivities}

NextTyped == SyncWritesRow \/ ForceSyncWritesRow
SpecTyped == InitTyped /\ [][NextTyped]_vars

\* ------------------------------------- the days an event's table can hold
\* the start_date and end_date columns of a one-day and of a two-day event
\* (both begin on 1970-01-02)
EventDayStart == timestamptz(DayMs)
EventDayEnds == {timestamptz(DayMs), timestamptz(2 * DayMs)}

\* the leaderboard's totalDays of a participant: the activity_date values of
\* the eligible rows (filter 'all')
eligibleDays(rows) == {row.activity_date : row \in {r \in rows : rowEligible(r)}}

InitDays ==
    /\ CoreInit
    /\ TableInit
    /\ board = NoBoard
    /\ norm = NoNorm
    /\ dates = NoDates /\ view = NoView /\ typed = NoTyped /\ dash = NoDash
    /\ range \in {[NoRange EXCEPT !.pc = "input", !.caller = "syncActivitiesToEventTable",
                                  !.startDate = EventDayStart, !.endDate = e] :
                    e \in EventDayEnds}

NextDays == TickCoarse \/ SyncByDates \/ SyncToken \/ SyncFiltered
SpecDays == InitDays /\ [][NextDays]_vars

\* ------------------------------------- the dashboard's auto-sync on load
\* const fiveMinutes = 5 * 60 * 1000
fiveMinutes == 5 * 60 * 1000

\* !lastSync || (now - lastSync > fiveMinutes), lastSync being the text of
\* the instant stored before (a non-empty string, also for instant 0) or null
syncDue(lastSync, t) == lastSync = NULL \/ t - lastSync > fiveMinutes

\* fetchDashboardData for a signed-in user whose profile says
\* strava_connected, from the read of last_strava_sync on: the sync is
\* started or not
loadDashboard(d, t, reload) ==
    [d EXCEPT !.pc = IF syncDue(d.lastSync, t) THEN "syncing" ELSE "shown",
              !.now = t, !.seen = d.lastSync, !.byReload = reload]

\* the user opens the dashboard (or opens it again)
DashboardLoad ==
    /\ dash.pc \in {"idle", "shown", "failed"}
    /\ dash' = loadDashboard(dash, now, FALSE)
    /\ UNCHANGED <<coreVars, tableVars, board, norm, dates, range, view, typed>>

\* StravaAPI.syncActivities resolved: the then-callback stores the now of the
\* load and calls location.reload(); the reloaded page runs the load again
AutoSyncResolved ==
    /\ dash.pc = "syncing"
    /\ dash' = loadDashboard([dash EXCEPT !.lastSync = dash.now], now, TRUE)
    /\ UNCHANGED <<coreVars, tableVars, board, norm, dates, range, view, typed>>

\* StravaAPI.syncActivities rejected: the catch-callback resets the button
AutoSyncRejected ==
    /\ dash.pc = "syncing"
    /\ dash' = [dash EXCEPT !.pc = "failed"]
    /\ UNCHANGED <<coreVars, tableVars, board, norm, dates, range, view, typed>>

InitDash ==
    /\ CoreInit
    /\ TableInit
    /\ board = NoBoard
    /\ norm = NoNorm
    /\ dates = NoDates /\ range = NoRange /\ view = NoView /\ typed = NoTyped
    /\ dash = NoDash

NextDash == TickCoarse \/ DashboardLoad \/ AutoSyncResolved \/ AutoSyncRejected
SpecDash == InitDash /\ [][NextDash]_vars

\* ================================================================ properties
\* seconds between the call of getValidAccessToken and the expiry of the
\* credential it was given
secondsLeft(op) == ToNumber(op.profile.strava_token_expires_at) - (op.calledAt \div 1000)
pastTokenCheck(op) == op.pc \in {"awaitRefresh", "awaitSave", "awaitFetch"}

\* C1: getValidAccessToken, given a credential with both tokens, calls the
\* token endpoint if and only if now >= expires_at - 300 at the time of the
\* call; otherwise it returns the stored access token without a token request.
C1_RefreshIffWithinBuffer ==
    \A o \in Slots :
        LET op == ops[o] IN
        (op.kind = "onDemand" /\ pastTokenCheck(op)) =>
            /\ (op.tokenReqs = 1) <=> (secondsLeft(op) <= 300)
            /\ (op.tokenReqs = 0) <=> (secondsLeft(op) > 300)
            /\ op.tokenReqs = 0 =>
                 /\ op.pc = "awaitFetch"
                 /\ op.accessToken = op.profile.strava_access_token

\* C1 witness: a credential expiring 200 s after the call is being refreshed
C1_Witness ==
    \E o \in Slots :
        /\ ops[o].kind = "onDemand"
        /\ ops[o].pc = "awaitRefresh"
        /\ secondsLeft(ops[o]) = 200

\* C1, second case: a credential expiring 400 s after the call is used as it is
C1_WitnessUnexpired ==
    \E o \in Slots :
        /\ ops[o].kind = "onDemand"
        /\ ops[o].pc = "awaitFetch"
        /\ ops[o].tokenReqs = 0
        /\ secondsLeft(ops[o]) = 400

\* C2: every request to the activities endpoint carries an access token that
\* was checked to satisfy now < expires_at - 300 or was obtained from a refresh
\* in the same operation (on-demand fetch, event table sync, admin force sync).
C2_TokenCheckedOrRefreshed ==
    \A o \in Slots :
        LET op == ops[o] IN
        op.pc = "awaitFetch" =>
            \/ op.how = "refreshed"
            \/ secondsLeft(op) > 300

\* C3: after a successful refresh the new access token is used by the caller
\* only after the write of the new triple to the profiles row has succeeded,
\* and the row then holds the triple the token endpoint returned.
C3_UsedOnlyAfterWrite ==
    \A o \in Slots :
        LET op == ops[o] IN
        (op.pc = "awaitFetch" /\ op.how = "refreshed") => op.saved

\* C4: every refresh request sends the refresh token the user's most recent
\* successful grant or refresh returned.
C4_SendsLatestRefreshToken ==
    \A o \in Slots :
        LET op == ops[o] IN
        (op.pc = "awaitRefresh" /\ op.kind \in {"onDemand", "sync"}) =>
            op.refreshSent = op.refreshCurrent

\* C5: when the token endpoint fails a refresh, the failure reaches the
\* caller after exactly one token request, with no write to the profiles row
\* and no activities request in that operation.
C5_RefreshFailurePropagates ==
    \A o \in Slots :
        LET op == ops[o] IN
        /\ op.result = "RefreshFailed" =>
              /\ op.pc = "done"
              /\ op.tokenReqs = 1
              /\ op.writes = 0
              /\ op.actReqs = 0
        /\ (op.kind = "onDemand" /\ op.pc = "awaitRefresh") =>
              /\ op.tokenReqs = 1
              /\ op.writes = 0
              /\ op.actReqs = 0

\* C5 witness: an on-demand fetch ended with the refresh failure
C5_Witness ==
    \E o \in Slots :
        /\ ops[o].kind = "onDemand"
        /\ ops[o].pc = "done"
        /\ ops[o].result = "RefreshFailed"

\* does the first argument of getValidAccessToken lack a token
lacksToken(profile) ==
    ~Truthy(profile.strava_access_token) \/ ~Truthy(profile.strava_refresh_token)

\* C6: getValidAccessToken called with a credential whose access token or
\* refresh token is absent fails with the not-connected error, having made no
\* token request, no activities request and no write.
C6_NotConnected ==
    [][\A o \in Slots, u \in Users :
          (/\ ops[o].pc \in {"idle", "done"}
           /\ ops'[o] # ops[o]
           /\ ops'[o].kind = "onDemand"
           /\ ops'[o].user = u
           /\ ops'[o].result # "cached"
           /\ lacksToken(pages[u].profile))
          => /\ ops'[o].pc = "done"
             /\ ops'[o].result = "NotConnected"
             /\ ops'[o].tokenReqs = 0
             /\ ops'[o].actReqs = 0
             /\ ops'[o].writes = 0
             /\ profiles' = profiles]_vars

\* C6 witness: a fetch for a page whose profile lacks the access token ended
\* with the not-connected error
C6_Witness ==
    \E o \in Slots :
        /\ ops[o].kind = "onDemand"
        /\ ops[o].result = "NotConnected"
        /\ lacksToken(pages[ops[o].user].profile)
        /\ Truthy(pages[ops[o].user].profile.strava_refresh_token)

\* C7: no column of a stored credential (access token, refresh token, expiry,
\* athlete id) goes from a value to null except by the disconnect action.
CredentialColumns ==
    {"strava_access_token", "strava_refresh_token", "strava_token_expires_at",
     "strava_athlete_id"}
C7_NulledOnlyByDisconnect ==
    [][\A u \in Users, c \in CredentialColumns :
          (profiles[u][c] # NULL /\ profiles'[u][c] = NULL) => Disconnect(u)]_vars

\* C9: fetchActivitiesOnDemand answers from the cache only with an entry that
\* a request with the same after and before bounds filled.
C9_CacheAnswersSameQuery ==
    \A o \in Slots :
        LET op == ops[o] IN
        (op.kind = "onDemand" /\ op.result = "cached") =>
            op.servedQuery = requestQuery(op.options)

\* what a reader of a cached activity can observe: the value of each property
ActivityProps == {"user_email", "strava_id", "type", "distance", "start_date"}
SameActivities(a, b) ==
    /\ Len(a) = Len(b)
    /\ \A i \in 1..Len(a) : \A f \in ActivityProps : Get(a[i], f) = Get(b[i], f)

\* C8: an entry written at time T is returned unchanged by every read at a
\* time <= T + 299999 ms; a read at a time >= T + 300001 ms reports absent and
\* the entry is gone from the store.
C8_CacheTTL ==
    (cacheCall.method = "get" /\ cacheCall.entry.present) =>
        LET T == cacheCall.entry.at
            key == getCacheKey(cacheCall.user, cacheCall.suffix) IN
        /\ cacheCall.at <= T + 299999 =>
              /\ cacheCall.hit
              /\ cacheCall.data.timestamp = T
              /\ SameActivities(cacheCall.data.activities, cacheCall.entry.activities)
              /\ key \in DOMAIN sessionStorage
        /\ cacheCall.at >= T + 300001 =>
              /\ ~cacheCall.hit
              /\ key \notin DOMAIN sessionStorage

\* C8 witness: a read 300001 ms after the write found the entry expired
C8_Witness ==
    /\ cacheCall.method = "get"
    /\ cacheCall.entry.present
    /\ cacheCall.at = cacheCall.entry.at + 300001
    /\ ~cacheCall.hit

\* C8, first case: a read 299999 ms after the write returned a non-empty list
C8_WitnessFresh ==
    /\ cacheCall.method = "get"
    /\ cacheCall.entry.present
    /\ cacheCall.at = cacheCall.entry.at + 299999
    /\ cacheCall.hit
    /\ Len(cacheCall.data.activities) = 2

\* C10: clearCache(user) removes every cache entry that user wrote, whatever
\* the query shape, and leaves the entries of every other user as they were.
C10_ClearCacheFrame ==
    [][\A u \in Users :
          ClearCache(u) =>
              \A k \in DOMAIN sessionStorage :
                  IF filledBy[k].user = u
                  THEN k \notin DOMAIN sessionStorage'
                  ELSE /\ k \in DOMAIN sessionStorage'
                       /\ sessionStorage'[k] = sessionStorage[k]]_vars

\* C11: fetchActivitiesOnDemand returns an unexpired cache entry of the
\* request's key without any token or activities request unless forceRefresh
\* is set; with forceRefresh the cache is not read; on a miss or a forced
\* fetch the credential is obtained before the activities request, and the
\* answer is normalized and written to the cache in the step that returns it.
C11_CacheFirstThenFetch ==
    [][\A o \in Slots :
          /\ \A u \in Athletes, options \in CredOptions :
                FetchActivitiesOnDemand(o, u, options) =>
                    LET key == getCacheKey(u, queryCacheKey(options))
                        fresh == /\ ~options.forceRefresh
                                 /\ key \in DOMAIN sessionStorage
                                 /\ now - sessionStorage[key].timestamp <= 300000
                    IN /\ fresh =>
                            /\ ops'[o].pc = "done"
                            /\ ops'[o].result = "cached"
                            /\ SameActivities(ops'[o].ret, filledBy[key].activities)
                            /\ ops'[o].tokenReqs = 0
                            /\ ops'[o].actReqs = 0
                            /\ sessionStorage' = sessionStorage
                       /\ ~fresh => ops'[o].result # "cached"
                       /\ options.forceRefresh => sessionStorage' = sessionStorage
          /\ ops'[o].kind = "onDemand" =>
                /\ ops'[o].pc \in {"awaitRefresh", "awaitSave"} => ops'[o].actReqs = 0
                /\ ops'[o].pc = "awaitFetch" =>
                      /\ ops'[o].actReqs = 1
                      /\ ops'[o].how \in {"checked", "refreshed"}
                      /\ Truthy(ops'[o].accessToken)
                /\ ops'[o].result = "ok" => ops'[o].actReqs = 1
          /\ OnDemandFetchOk(o) =>
                LET key == getCacheKey(ops[o].user, ops[o].cacheKey)
                    written == JSONStringify([activities |-> ops'[o].ret, timestamp |-> now])
                IN /\ ops'[o].result = "ok"
                   /\ \E raw \in RawAnswers :
                         ops'[o].ret = transformActivities(raw, ops[o].user)
                   /\ \/ sessionStorage' = Put(sessionStorage, key, written)
                      \/ sessionStorage' = sessionStorage]_vars

\* C11 witness: a call without forceRefresh was answered from the cache with
\* a non-empty list, no request made
C11_Witness ==
    \E o \in Slots :
        /\ ops[o].kind = "onDemand"
        /\ ops[o].result = "cached"
        /\ ~ops[o].options.forceRefresh
        /\ Len(ops[o].ret) > 0
        /\ ops[o].actReqs = 0

\* the errors of the token endpoint, the profiles update and the activities
\* endpoint, as fetchActivitiesOnDemand passes them on
EndpointErrors == {"NotConnected", "RefreshFailed", "SaveFailed", "FetchFailed"}

\* C12: with a sessionStorage that keeps nothing (every read absent, every
\* write dropped) no fetchActivitiesOnDemand call is answered from the cache,
\* a call fails only when an endpoint or the credential fails, every call
\* whose activities request is answered 2xx returns normally, having made
\* exactly one activities request, and what it returns is the normalization
\* of that answer, the value the call returns when the cache works.
C12_CacheNotNeeded ==
    [][\A o \in Slots :
          /\ sessionStorage' = EmptyMap
          /\ \A u \in Athletes, options \in CredOptions :
                FetchActivitiesOnDemand(o, u, options) =>
                    ops'[o] = getValidAccessToken(
                                 [IdleOp EXCEPT !.kind = "onDemand", !.user = u,
                                                !.profile = pages[u].profile,
                                                !.options = options,
                                                !.cacheKey = queryCacheKey(options),
                                                !.before = [cache |-> sessionStorage,
                                                            rows |-> eventRows]],
                                 now, provider[u].refresh_token)
          /\ (ops'[o].kind = "onDemand" /\ ops'[o].pc = "done") =>
                /\ ops'[o].result \in EndpointErrors \cup {"ok"}
                /\ ops'[o].result = "ok" =>
                      /\ ops'[o].actReqs = 1
                      /\ ops'[o].rawActivities \in RawAnswers
                      /\ ops'[o].ret = transformActivities(ops'[o].rawActivities, ops'[o].user)
          /\ (ops[o].kind = "onDemand" /\ ops[o].pc = "awaitFetch"
                /\ ops'[o] # ops[o] /\ ops'[o].result # "FetchFailed") =>
                /\ ops'[o].pc = "done"
                /\ ops'[o].result = "ok"]_vars

\* C12 witness: with nothing stored, a call has made its activities request
\* and returned the two normalized activities of the answer
C12_Witness ==
    \E o \in Slots :
        /\ sessionStorage = EmptyMap
        /\ ops[o].kind = "onDemand"
        /\ ops[o].result = "ok"
        /\ ops[o].rawActivities = <<RawRun, RawYoga>>
        /\ Len(ops[o].ret) = 2
        /\ ops[o].actReqs = 1

\* C13: when two fetchActivitiesOnDemand calls for the same user and query
\* both miss the cache, each of them completes without error and returns the
\* normalization of the answer to its own activities request, and once both
\* have completed a cache entry that is present holds the result of one of
\* the two, stamped with the time of the write that stored it.
C13_BothCompleteOwnFetch ==
    LET key == getCacheKey(UserA, queryCacheKey(NoOptions))
        missed(o) == ops[o].kind = "onDemand" /\ ops[o].pc = "done" /\ ops[o].result # "cached"
    IN /\ \A o \in PairSlots :
             missed(o) =>
                 /\ ops[o].result = "ok"
                 /\ ops[o].actReqs = 1
                 /\ ops[o].ret = transformActivities(ops[o].rawActivities, ops[o].user)
       /\ ((\A o \in PairSlots : missed(o)) /\ key \in DOMAIN sessionStorage) =>
             /\ \E o \in PairSlots :
                    SameActivities(JSONParse(sessionStorage[key]).activities, ops[o].ret)
             /\ JSONParse(sessionStorage[key]).timestamp = filledBy[key].at
             /\ JSONParse(sessionStorage[key]).timestamp <= now

\* what is left of a store when the entry of one key, expired at time t, has
\* been evicted
withoutExpired(store, key, t) ==
    IF key \in DOMAIN store /\ t - JSONParse(store[key]).timestamp > 300000
    THEN Remove(store, key)
    ELSE store

\* C14 (as stated): when the activities endpoint answers non-2xx the
\* operation fails and the cache and the event table are exactly as they were
\* when the operation was called.
C14_FailureLeavesAllAsFound ==
    [][\A o \in Slots :
          FetchFail(o) =>
              /\ ops'[o].pc = "done"
              /\ ops'[o].result = "FetchFailed"
              /\ sessionStorage' = ops[o].before.cache
              /\ eventRows' = ops[o].before.rows]_vars

\* C14 (amended): when the activities endpoint answers non-2xx the operation
\* fails, the event table is exactly as it was when the operation was called,
\* and so is the cache, except that fetchActivitiesOnDemand may have evicted
\* the entry of its own key if that entry had expired when it was called.
C14_FailureKeepsLiveState ==
    [][\A o \in Slots :
          FetchFail(o) =>
              LET op == ops[o]
                  key == getCacheKey(op.user, op.cacheKey) IN
              /\ ops'[o].pc = "done"
              /\ ops'[o].result = "FetchFailed"
              /\ ops'[o].ret = <<>>
              /\ eventRows' = op.before.rows
              /\ sessionStorage' = IF op.kind = "onDemand" /\ ~op.options.forceRefresh
                                   THEN withoutExpired(op.before.cache, key, op.calledAt)
                                   ELSE op.before.cache]_vars

\* C14 witness: a sync has failed on the activities request while the event
\* table held a row and the cache held an entry
C14_Witness ==
    \E o \in Slots :
        /\ ops[o].kind = "sync"
        /\ ops[o].result = "FetchFailed"
        /\ eventRows # {}
        /\ DOMAIN sessionStorage # {}

\* the registrants forceSyncAllUsers has counted so far
tally(op) == op.syncedCount + op.noStravaCount + op.errorCount
inLoop(op) == op.kind = "force" /\ op.pc \in {"forceProfile", "awaitRefresh", "awaitSave",
                                                "awaitFetch", "awaitUpsert"}

\* C15: forceSyncAllUsers takes the paid registrations one at a time in the
\* order of the list, counts each of them exactly once (synced, no Strava or
\* error) before it takes the next, whatever fails for a registrant the loop
\* goes on to the next one and the call ends normally, and at the end the
\* three counters add up to the number of registrations; a registrant
\* without a stored credential is counted as no Strava.
C15_BatchCountsEveryRegistrant ==
    [][\A o \in Slots :
          LET op == ops[o]
              next == ops'[o] IN
          /\ inLoop(next) =>
                /\ next.idx \in 1..Len(Registrations)
                /\ next.user = Registrations[next.idx]
                /\ tally(next) = next.idx - 1
          /\ (inLoop(op) /\ next # op) =>
                \/ /\ inLoop(next)
                   /\ next.idx = op.idx
                   /\ tally(next) = tally(op)
                \/ /\ inLoop(next)
                   /\ next.idx = op.idx + 1
                   /\ tally(next) = tally(op) + 1
                \/ /\ next.pc = "done"
                   /\ next.result = "ok"
                   /\ op.idx = Len(Registrations)
                   /\ tally(next) = Len(Registrations)
          /\ (next.kind = "force" /\ next.pc = "done") =>
                /\ next.result \in {"ok", "RegistrationsFailed"}
                /\ next.result = "ok" => tally(next) = Len(Registrations)
          /\ (inLoop(op) /\ op.pc = "forceProfile"
                /\ ~Truthy(profiles[op.user].strava_access_token) /\ next # op) =>
                /\ next.noStravaCount = op.noStravaCount + 1
                /\ next.syncedCount = op.syncedCount
                /\ next.errorCount = op.errorCount]_vars

\* C15 witness: three registrants, the second without a stored credential:
\* the batch has ended with 2 synced, 1 no Strava, 0 errors
C15_Witness ==
    \E o \in Slots :
        /\ ops[o].kind = "force"
        /\ ops[o].pc = "done"
        /\ ops[o].result = "ok"
        /\ ~Truthy(profiles[Registrations[2]].strava_access_token)
        /\ ops[o].syncedCount = 2
        /\ ops[o].noStravaCount = 1
        /\ ops[o].errorCount = 0

\* C16: in forceSyncAllUsers a registrant whose token refresh fails, or whose
\* activities request fails or is answered non-2xx, adds one to the error
\* counter and nothing to the synced counter.
C16_FailuresCountedAsErrors ==
    [][\A o \in Slots :
          (\/ ForceRefreshFail(o)
           \/ \E raw \in EventAnswers : ForceFetchAnswer(o, raw, FALSE)) =>
              /\ ops'[o].errorCount = ops[o].errorCount + 1
              /\ ops'[o].syncedCount = ops[o].syncedCount]_vars

\* C17: in forceSyncAllUsers a rejected upsert shows in the tally: the call
\* keeps a record of it while the registrant's other activities are saved,
\* and when the registrant's last upsert has been answered a registrant with
\* a rejected upsert is counted as an error, or at least not as synced.
C17_RejectedUpsertInTally ==
    [][\A o \in Slots :
          (ops[o].kind = "force" /\ UpsertAnswer(o, FALSE)) =>
              IF Len(ops[o].pending) > 1
              THEN ops'[o] # [ops[o] EXCEPT !.pending = Tail(@)]
              ELSE \/ ops'[o].errorCount = ops[o].errorCount + 1
                   \/ ops'[o].syncedCount = ops[o].syncedCount]_vars

\* the positions of the activities of an answer whose start instant lies
\* between the two instants (bounds included)
startsWithin(raw, startTs, endTs) ==
    {i \in 1..Len(raw) : startTs <= raw[i].start_date /\ raw[i].start_date <= endTs}

\* C18: syncActivitiesToEventTable sends one upsert for every fetched
\* activity inside the window, in the order of the answer; a rejected upsert
\* adds one to skipped and the loop goes on with the remaining activities; the
\* operation returns normally and synced + skipped is the number of
\* activities inside the window.
C18_SyncedPlusSkipped ==
    [][\A o \in Slots :
          LET op == ops[o]
              next == ops'[o] IN
          /\ SyncFetchOk(o) =>
                \E raw \in EventAnswers :
                    LET window == syncWindow(event, op.calledAt)
                        n == Cardinality(startsWithin(raw, window.startTs, window.endTs)) IN
                    IF n = 0
                    THEN next.pc = "done" /\ next.result = "ok"
                         /\ next.synced = 0 /\ next.skipped = 0
                    ELSE /\ next.pc = "awaitUpsert"
                         /\ next.found = n
                         /\ Len(next.pending) = n
                         /\ next.synced = 0 /\ next.skipped = 0
                         /\ {next.pending[i].strava_id : i \in 1..n}
                              = {raw[i].id : i \in startsWithin(raw, window.startTs, window.endTs)}
          /\ (op.kind = "sync" /\ op.pc = "awaitUpsert" /\ next # op) =>
                /\ \/ next.synced = op.synced + 1 /\ next.skipped = op.skipped
                      /\ Head(op.pending) \in eventRows'
                   \/ next.synced = op.synced /\ next.skipped = op.skipped + 1
                      /\ eventRows' = eventRows
                /\ IF Len(op.pending) > 1
                   THEN next.pc = "awaitUpsert" /\ next.pending = Tail(op.pending)
                   ELSE next.pc = "done" /\ next.result = "ok"
          /\ (next.kind = "sync" /\ next.pc = "awaitUpsert") =>
                next.synced + next.skipped + Len(next.pending) = next.found
          /\ (next.kind = "sync" /\ next.pc = "done" /\ next.result = "ok") =>
                next.synced + next.skipped = next.found]_vars

\* C18 witness: a sync of two activities inside the window has returned with
\* one upsert stored and one rejected
C18_Witness ==
    \E o \in Slots :
        /\ ops[o].kind = "sync"
        /\ ops[o].pc = "done"
        /\ ops[o].result = "ok"
        /\ ops[o].found = 2
        /\ ops[o].synced = 1
        /\ ops[o].skipped = 1

\* C19: the upsert is idempotent on strava_id: a successful upsert leaves
\* exactly one row with the strava_id of the row sent, equal to the row sent,
\* and every other row as it was; whatever syncs and force syncs have run,
\* no two rows of the event table share a strava_id and no strava_id once
\* stored disappears.
C19_OneRowPerStravaId ==
    [][/\ \A o \in Slots :
            UpsertAnswer(o, TRUE) =>
                LET row == Head(ops[o].pending) IN
                /\ row \in eventRows'
                /\ \A r \in eventRows' : r.strava_id = row.strava_id => r = row
                /\ \A r \in eventRows : r.strava_id # row.strava_id => r \in eventRows'
                /\ eventRows' \subseteq eventRows \cup {row}
       /\ eventRows' # eventRows => \E o \in Slots : UpsertAnswer(o, TRUE)
       /\ \A r1, r2 \in eventRows' : r1.strava_id = r2.strava_id => r1 = r2
       /\ \A r \in eventRows : \E r2 \in eventRows' : r2.strava_id = r.strava_id]_vars

\* C19 witness: a sync found the run stored with 3000 m and has upserted it
\* again with the edited distance: the table holds the one row for its
\* strava_id, with 5000 m
C19_Witness ==
    \E o \in Slots :
        /\ ops[o].kind = "sync"
        /\ ops[o].pc = "awaitUpsert"
        /\ syncRow(RawRun, ops[o].user) \in ops[o].before.rows
        /\ syncRow(RawRunEdited, ops[o].user) \in eventRows
        /\ Cardinality({r \in eventRows : r.strava_id = RawRun.id}) = 1

\* every activity the activities endpoint may return
AllActivities == UNION {{raw[i] : i \in 1..Len(raw)} : raw \in EventAnswers}

\* C20: whatever the endpoint returns, every row of the event table belongs
\* to an activity whose start instant t satisfies
\* startOfDay(event start) <= t <= endOfDay(event end, or now if the event
\* has no end).
C20_RowsInsideWindow ==
    \A r \in eventRows :
        \E act \in AllActivities :
            /\ act.id = r.strava_id
            /\ setHoursStart(event.start_date) <= act.start_date
            /\ act.start_date <= setHoursEnd(IF Truthy(event.end_date)
                                             THEN event.end_date ELSE now)

\* C20 witness: the event has no end date and the admin's force sync has got
\* the edited run (01:00), the walk (00:02:30) and the hike (19:26) at
\* 00:04:10 or later: only the walk's row is in the table
C20_Witness ==
    \E o \in Slots :
        /\ ops[o].kind = "force"
        /\ ops[o].pc = "done"
        /\ ~Truthy(event.end_date)
        /\ eventRows = {adminRow(RawWalk, UserA)}

\* C21: an event with a table identifier was given it at a time not earlier
\* than its start instant, and an event without a table has an absent
\* identifier and a false provisioned flag.
C21_ProvisionedAfterStart ==
    \A e \in EventIds :
        IF events[e].activity_table_name # NoTable
        THEN /\ provisionedAt[e] # NULL
             /\ provisionedAt[e] >= events[e].start_date
        ELSE ~events[e].activity_table_created

\* C22: no two distinct events have the same activity table identifier.
C22_DistinctTables ==
    \A e1, e2 \in EventIds :
        (/\ e1 # e2
         /\ events[e1].activity_table_name # NoTable
         /\ events[e2].activity_table_name # NoTable)
        => events[e1].activity_table_name # events[e2].activity_table_name

\* the sum of synced over the detail entries that carry no error
RECURSIVE sumOfSucceeded(_)
sumOfSucceeded(details) ==
    IF details = <<>> THEN 0
    ELSE (IF Head(details).error = NoError THEN Head(details).synced ELSE 0)
         + sumOfSucceeded(Tail(details))

\* C23: autoSyncUserActivities attempts the active events one after the other
\* (a failed event is recorded and the loop goes on), and its result reports
\* events = the number of active events, one detail entry per event, in order,
\* with either its counts or its error, and totalSynced = the sum of synced
\* over the entries without an error.
C23_AutoSyncReportsEveryEvent ==
    /\ auto.pc \in {"ensure", "fetch"}
        => /\ auto.idx \in 1..Len(auto.activeEvents)
           /\ Len(auto.results) = auto.idx - 1
    /\ auto.pc = "done"
        => /\ auto.ret.events = Len(auto.activeEvents)
           /\ Len(auto.ret.details) = Len(auto.activeEvents)
           /\ auto.ret.totalSynced = sumOfSucceeded(auto.ret.details)
           /\ \A i \in 1..Len(auto.ret.details) :
                 LET r == auto.ret.details[i] IN
                 /\ r.eventName = auto.activeEvents[i].name
                 /\ IF r.error = NoError
                    THEN r.synced \in Nat /\ r.skipped \in Nat
                    ELSE r.synced = UNDEF /\ r.skipped = UNDEF

\* C23 witness: a finished auto-sync over two active events whose first event
\* failed and whose second event synced an activity
C23_Witness ==
    /\ auto.pc = "done"
    /\ Len(auto.activeEvents) = 2
    /\ auto.ret.details[1].error # NoError
    /\ auto.ret.details[2].error = NoError
    /\ auto.ret.details[2].synced > 0
    /\ auto.ret.totalSynced = auto.ret.details[2].synced

\* the leaderboards that count eligible activities, once they show a table
showsTable(variants) ==
    board.pc = "rendered" /\ board.shown = "table" /\ board.variant \in variants
\* the positions of the activities of a user in what the render found
activitiesOf(email) ==
    {i \in 1..Len(board.activities) : board.activities[i].user_email = email}
\* the stated thresholds: category and distance
meetsThreshold(category, distance) ==
    \/ category \in {"run", "walk", "hiking"} /\ distance >= 3000
    \/ category = "cycling" /\ distance >= 10000
    \/ category = "swimming" /\ distance >= 500
\* the stated thresholds, swim being read as swimming
meetsThresholdOrSwim(category, distance) ==
    \/ meetsThreshold(category, distance)
    \/ category = "swim" /\ distance >= 500

RECURSIVE sumDistances(_)
sumDistances(S) ==
    IF S = {} THEN 0
    ELSE LET i == CHOOSE x \in S : TRUE IN
         distOf(board.activities[i]) + sumDistances(S \ {i})

\* the positions of a user's activities that are eligible and match the filter
eligibleOf(email) ==
    {i \in activitiesOf(email) :
        /\ matchesFilter(typeOf(board.activities[i]), board.activityFilter)
        /\ isEligible(typeOf(board.activities[i]), distOf(board.activities[i]))}

\* C25: a user's eligible-day count is the number of distinct local dates
\* among the user's activities that are eligible and match the filter, while
\* eligibleActivities and eligibleDistance count every such activity.
C25_DistinctEligibleDays ==
    showsTable({"table", "onDemand"})
    => \A k \in 1..Len(board.users) :
          LET u == board.users[k]
              mine == eligibleOf(u.email) IN
          /\ Cardinality(u.totalDays) = Cardinality({board.activities[i].date : i \in mine})
          /\ u.eligibleActivities = Cardinality(mine)
          /\ u.eligibleDistance = sumDistances(mine)

\* C25 witness: two eligible activities on one local date gave one day, two
\* eligible activities and the sum of both distances
C25_Witness ==
    /\ showsTable({"table", "onDemand"})
    /\ board.activities = <<Act(UserA, "run", 3000, 0), Act(UserA, "Run", 5000, 0)>>
    /\ \E k \in 1..Len(board.users) :
          /\ board.users[k].email = UserA
          /\ Cardinality(board.users[k].totalDays) = 1
          /\ board.users[k].eligibleActivities = 2
          /\ board.users[k].eligibleDistance = 8000

\* C26: the event-table and on-demand leaderboards are ordered by eligible
\* day count descending and, at equal day count, by eligible distance
\* descending.
C26_OrderedByDaysThenDistance ==
    showsTable({"table", "onDemand"})
    => \A k \in 1..(Len(board.users) - 1) :
          LET a == board.users[k]
              b == board.users[k + 1] IN
          \/ Cardinality(a.totalDays) > Cardinality(b.totalDays)
          \/ /\ Cardinality(a.totalDays) = Cardinality(b.totalDays)
             /\ a.eligibleDistance >= b.eligibleDistance

\* C26 witness: two entries with one eligible day each, the one with the
\* larger eligible distance first although its user registered second
C26_Witness ==
    /\ showsTable({"table", "onDemand"})
    /\ Len(board.users) = 2
    /\ board.users[1].email = UserC
    /\ board.users[2].email = UserA
    /\ Cardinality(board.users[1].totalDays) = 1
    /\ Cardinality(board.users[2].totalDays) = 1
    /\ board.users[1].eligibleDistance > board.users[2].eligibleDistance

\* C27: in every leaderboard variant, totalActivities and totalDistance of an
\* entry count every activity of that participant, whatever the filter and
\* whether or not the activity is eligible.
C27_TotalsCountEverything ==
    showsTable({"table", "onDemand", "stored"})
    => \A k \in 1..Len(board.users) :
          LET u == board.users[k] IN
          /\ u.totalActivities = Cardinality(activitiesOf(u.email))
          /\ u.totalDistance = sumDistances(activitiesOf(u.email))

\* the distinct users with a paid registration for the event of the page
paidUsers ==
    {EventRegistrations[i].user_email : i \in
        {j \in 1..Len(EventRegistrations) :
            /\ EventRegistrations[j].event_id = board.eventId
            /\ EventRegistrations[j].payment_status = "paid"}}

\* C28: in every leaderboard variant, the leaderboard of an event has exactly
\* one entry for each distinct user with a paid registration, users without
\* activities included (with zero stats, after every user with an eligible
\* day), and no entry and no counted activity for any other user.
C28_OneEntryPerPaidUser ==
    (board.pc = "rendered" /\ paidUsers # {})
    => /\ board.shown = "table"
       /\ Len(board.users) = Cardinality(paidUsers)
       /\ {board.users[k].email : k \in 1..Len(board.users)} = paidUsers
       /\ \A k \in 1..Len(board.users) :
             /\ board.users[k].totalActivities <= Cardinality(activitiesOf(board.users[k].email))
             /\ activitiesOf(board.users[k].email) = {}
                 => /\ board.users[k].totalActivities = 0
                    /\ board.users[k].totalDistance = 0
                    /\ Cardinality(board.users[k].totalDays) = 0
                    /\ \A j \in 1..Len(board.users) :
                          Cardinality(board.users[j].totalDays) > 0 => j < k

\* C29: when the profile lookup of a render fails, the leaderboard is still
\* produced, with an entry for every paid participant whose display name is
\* derived from the participant's e-mail.
C29_RenderSurvivesProfileFailure ==
    (board.pc = "rendered" /\ ~board.profilesOk /\ paidUsers # {})
    => /\ board.shown = "table"
       /\ {board.users[k].email : k \in 1..Len(board.users)} = paidUsers
       /\ \A k \in 1..Len(board.users) :
             board.users[k].name = beforeAt(board.users[k].email)

\* the stated mapping of raw categories
statedCategory(stravaType) ==
    CASE stravaType \in {"Ride", "VirtualRide", "E-BikeRide"} -> "cycling"
      [] stravaType \in {"Run", "VirtualRun"} -> "run"
      [] stravaType = "Walk" -> "walk"
      [] stravaType = "Hike" -> "hiking"
      [] stravaType = "Swim" -> "swimming"
      [] OTHER -> toLowerCase(stravaType)

\* C30: normalizeActivityType never fails and gives, for every raw category
\* of an external activity, cycling for Ride, VirtualRide and E-BikeRide, run
\* for Run and VirtualRun, walk for Walk, hiking for Hike, swimming for Swim,
\* and for any other value that value lowercased.
C30_NormalizeIsTotal ==
    norm.pc = "done"
    => /\ ~norm.threw
       /\ Len(norm.out) = Len(norm.activities)
       /\ \A i \in 1..Len(norm.out) :
             norm.out[i].type = statedCategory(norm.activities[i].type)

\* ------------------------------------------------- C31
\* a date input that is absent (null, undefined, '') or denotes no date
absentOrUnparseable(v) == Falsy(v) \/ v.text \in UnparseableTexts

\* C31: for an absent or unparseable date input, both start-of-day functions
\* return absent and both end-of-day functions return the instant of the call
C31_AbsentStartCurrentEnd ==
    (dates.pc = "done" /\ absentOrUnparseable(dates.input))
        => /\ dates.startUTC = NULL
           /\ dates.start = NULL
           /\ dates.endUTC = dates.at
           /\ dates.end = dates.at

\* ------------------------------------------------- C33
\* the local calendar day (days since 1970-01-01) the host's clock shows at t
localDay(t) == (t - HostOffset) \div DayMs
\* instants at and next to the quarters of the first days
SampleInstants ==
    {k * (DayMs \div 4) + HostOffset + e : k \in 0..12, e \in {0 - 1, 0}}
bareDateOf(v) == CHOOSE d \in BareDates : d.text = v.text
isBareDate(v) == ~Falsy(v) /\ \E d \in BareDates : d.text = v.text

\* C33: for a valid bare date the start-of-day functions return local
\* 00:00:00.000 of that day and the end-of-day functions local 23:59:59.999,
\* so an instant lies in the local day exactly if it lies between the two
C33_BracketsLocalDay ==
    (dates.pc = "done" /\ isBareDate(dates.input))
        => LET day == bareDateOf(dates.input).day
           IN /\ dates.startUTC = day * DayMs + HostOffset
              /\ dates.endUTC = day * DayMs + HostOffset + DayMs - 1
              /\ dates.start = dates.startUTC
              /\ dates.end = dates.endUTC
              /\ \A t \in SampleInstants :
                    (localDay(t) = day) <=> (dates.startUTC <= t /\ t <= dates.endUTC)
\* the helpers were applied to 1970/01/03 after the clock had moved
C33_Witness ==
    /\ dates.pc = "done"
    /\ dates.input = Str(<<"1", "9", "7", "0", "/", "0", "1", "/", "0", "3">>)
    /\ dates.at > 0
    /\ dates.startUTC = 2 * DayMs + HostOffset
    /\ \E t \in SampleInstants : localDay(t) = 2

\* ------------------------------------------------- C32
\* the start bound the caller's helper gives for the start date it was handed
startBound(r) ==
    IF r.caller = "forceSyncAllUsers" THEN getStartOfDay(r.startDate)
    ELSE getStartOfDayUTC(r.startDate)

\* C32: when the start bound of the window is absent, getActivitiesInRange,
\* syncActivitiesToEventTable and the admin page's fetchStravaActivities /
\* saveActivitiesToEventTable send no request with after and before and
\* write no activity row
C32_NoRequestWithoutStart ==
    (range.pc # "idle" /\ startBound(range) = NULL)
        => range.requests = <<>> /\ range.rows = {}
\* getActivitiesInRange has returned for the start date 'abc', called after
\* the clock had moved
C32_Witness ==
    /\ range.pc = "done"
    /\ range.caller = "getActivitiesInRange"
    /\ range.startDate = Str(<<"a", "b", "c">>)
    /\ startBound(range) = NULL
    /\ range.at > 0
    /\ ~range.threw

\* ------------------------------------------------- C34
\* the ids of the fetched raw activities whose UTC start lies in the bounds
idsInUTCRange(raw, startTs, endTs) ==
    {raw[i].id : i \in {j \in 1..Len(raw) : inRange(raw[j].start_date, startTs, endTs)}}

\* C34: getActivitiesInRange returns exactly the fetched activities whose UTC
\* start instant lies between the start of the start day and the end of the
\* end day
C34_FilteredByUTCStart ==
    (/\ range.pc = "done"
     /\ range.caller = "getActivitiesInRange"
     /\ ~range.threw
     /\ range.startTs # NULL)
        => {range.ret[i].strava_id : i \in 1..Len(range.ret)}
             = idsInUTCRange(range.fetched, range.startTs, range.endTs)

\* ------------------------------------------------- C35
\* C35: a profile that is not connected (never linked, or disconnected by
\* its user) is given an access token or is marked as connected again only
\* by the save of a new authorization grant, not by the token save of an
\* operation that holds a profile object it read earlier
C35_ReconnectedOnlyByGrant ==
    [][\A u \in Users :
          (\/ ~profiles[u].strava_connected /\ profiles'[u].strava_connected
           \/ profiles[u].strava_access_token = NULL
                /\ profiles'[u].strava_access_token # NULL)
          => \E o \in Slots : ops[o].kind = "grant" /\ ops[o].user = u /\ SaveOk(o)]_vars

\* ------------------------------------------------- C36
\* C36: after any calls of create_event_activity_table and
\* delete_event_activity_table, an event whose activity_table_created flag
\* is true has an activity_table_name that names an existing table, and an
\* event without a table name (never provisioned, or its table deleted) has
\* the flag false
C36_FlagNamesExistingTable ==
    \A e \in EventIds :
        /\ events[e].activity_table_created
             => /\ events[e].activity_table_name # NoTable
                /\ events[e].activity_table_name \in DOMAIN tables
        /\ events[e].activity_table_name = NoTable => ~events[e].activity_table_created

\* no call of renderLeaderboard is waiting on I/O
rendersDone == \A s \in RenderSlots : view.renders[s].pc = "idle"

\* C37: once every overlapping render has completed, the leaderboard on the
\* page is the one computed for the event and the filter now selected (or the
\* error message), never the rows of an earlier selection
C37_ShowsCurrentSelection ==
    (view.eventId # NULL /\ view.written /\ rendersDone /\ view.body # ErrorLoading)
        => \E ok \in BOOLEAN :
              view.body = leaderboardOf(view.eventId, view.activityFilter, ok)

\* C38: the category of a stored row, and with it the row's eligibility, is
\* the same whichever sync wrote the row: a later write by the other path
\* leaves both as the first write set them
C38_CategoryIndependentOfSync ==
    typed.pc = "stored"
        => /\ typed.row.activity_type = typed.first.activity_type
           /\ rowEligible(typed.row) = rowEligible(typed.first)

\* the day number of the date part of a column text (substring(0, 10))
datePartDay(v) ==
    DateParse(SubSeq(v.text, 1, 10) \o <<"T", "0", "0", ":", "0", "0", ":", "0", "0", "Z">>)[1]
        \div DayMs
\* the calendar days from the event's start date to its end date, inclusive
calendarDays(r) == datePartDay(r.endDate) - datePartDay(r.startDate) + 1

\* C39: after syncActivitiesToEventTable has written the rows of an event
\* with start and end dates, the participant's eligible days on the
\* leaderboard are at most the calendar days of the event
C39_DaysWithinEvent ==
    (range.caller = "syncActivitiesToEventTable" /\ range.pc = "done"
     /\ ~range.threw /\ range.startDate = EventDayStart /\ range.endDate \in EventDayEnds)
        => Cardinality(eligibleDays(range.rows)) <= calendarDays(range)

\* a load finds the sync due only without a record or with one older than
\* five minutes
startsWhenDue ==
    dash.pc = "syncing" => (dash.seen = NULL \/ dash.now - dash.seen > fiveMinutes)
\* the load that follows a successful auto-sync starts no auto-sync
reloadStartsNone == AutoSyncResolved => dash'.pc # "syncing"
\* a failed auto-sync leaves the record, and the next load syncs again
failureRetries ==
    /\ AutoSyncRejected => dash'.lastSync = dash.lastSync
    /\ (dash.pc = "failed" /\ DashboardLoad) => dash'.pc = "syncing"

\* C40: on a dashboard load of a connected user the auto-sync starts only
\* without a last-sync record or with one older than five minutes; the reload
\* after a successful auto-sync starts no further auto-sync; a failed
\* auto-sync leaves the record unchanged and the next load syncs again
C40_AutoSyncOncePerFiveMinutes ==
    [][startsWhenDue /\ startsWhenDue' /\ reloadStartsNone /\ failureRetries]_vars

====
